---- MODULE Spec2Model ----
(***************************************************************************)
(* The TCP portal of ockam_transport_tcp: one inlet and one outlet         *)
(* TcpPortalWorker, their receive processors, and the routed messages      *)
(* between them (portal/portal_worker.rs).                                 *)
(*                                                                         *)
(* A worker's handler runs to completion before the next message is        *)
(* delivered to the same worker, and it is suspended at each await: the    *)
(* variable pc holds the await a worker's handler is suspended at.         *)
(* The node runtime (mailboxes, stop_worker, stop_processor) and the       *)
(* receive processor are not part of portal_worker.rs; they are modelled   *)
(* from the specification's sections 4.F and 5.                            *)
(*                                                                         *)
(* The evaluator of ockam_abac (eval.rs) over the expressions of expr.rs:  *)
(* the variables ctrl and args are its two stacks, and each arm of its     *)
(* match is one action.  Env (env.rs) is modelled from the specification.  *)
(*                                                                         *)
(* Display and parse of expressions (expr.rs, parser.rs): texts are        *)
(* sequences of tokens, the lexer being modelled from the specification,   *)
(* and each arm of parse's loop is one action.  eq and partial_cmp of      *)
(* expr.rs are applied to triples of expressions.                          *)
(*                                                                         *)
(* The state directory of ockam_command (state.rs): the config files and   *)
(* the default symlink of the vaults and identities directories.           *)
(***************************************************************************)
EXTENDS Naturals, Sequences, FiniteSets

\* ---------------------------------------------------------------- bounds

\* Messages the environment may send to the workers' addresses besides the
\* protocol's own (duplicates, out-of-order or foreign messages).
MaxStray == 1

\* Non-empty reads of the receive processors, over both processors.
MaxReads == 1

\* Invocations of start_disconnection, over both workers, after which it is
\* not invoked directly any more.
MaxCalls == 2

\* Operands of a form in an evaluated expression.
MaxOperands == 3

\* Elements of a Seq or List that is written or compared, and expressions of
\* a text.
MaxItems == 2

\* Tokens of a text that is not written by Display.
MaxTokens == 4

\* ------------------------------------------------------------- vocabulary

Inlet == "Inlet"
Outlet == "Outlet"

\* enum TypeName
TypeName == {Inlet, Outlet}

Peer(w) == IF w = Inlet THEN Outlet ELSE Inlet

\* enum State (the routes of SendPing and SendPong are PingRoute, PongRoute)
SendPing == "SendPing"
SendPong == "SendPong"
ReceivePong == "ReceivePong"
Initialized == "Initialized"
State == {SendPing, SendPong, ReceivePong, Initialized}

\* enum DisconnectionReason
FailedTx == "FailedTx"
FailedRx == "FailedRx"
Remote == "Remote"
DisconnectionReason == {FailedTx, FailedRx, Remote}

\* Option<Route>: None, or the worker a route leads to. Stray is the return
\* route of a message that did not come from the opposing portal.
None == "None"
Stray == "Stray"
Route == TypeName \cup {Stray}

\* The initial state of an inlet: SendPing { ping_route }, the stream split.
InletState == SendPing

\* The initial state of an outlet: SendPong { pong_route }, no stream.
OutletState == SendPong

\* pong_route: the return route of the Ping the outlet was created for.
PongRoute == Inlet

\* PortalMessage, and the one PortalInternalMessage.
Ping == "Ping"
Pong == "Pong"
Payload == "Payload"
Disconnect == "Disconnect"
PortalMessage == {Ping, Pong, Payload, Disconnect}
InternalDisconnect == "InternalDisconnect"

\* A routed message: its decoded payload, its return route, and whether its
\* onward route holds another hop after the worker's own address.
Msg(kind, ret, hop) == [kind |-> kind, ret |-> ret, hop |-> hop]

\* Result<()> of a handler.
Ok == "Ok"
PortalInvalidState == "PortalInvalidState"
Protocol == "Protocol"
UnknownRoute == "UnknownRoute"
SendError == "SendError"
ConnectError == "ConnectError"
StopError == "StopError"

\* ================================================================ ockam_abac
\* The expression value model (expr.rs) and the evaluator (eval.rs).

\* ------------------------------------------------------------ enum Expr

\* An Expr: its variant, and the variant's content. n holds an Int, a Float
\* with an integral value, a Bool (0, 1) or the code of a Str; s holds the
\* name of an Ident, or "nan" for the Float that is not a number; items holds
\* the elements of a Seq or List.
Expr(tag, n, s, items) == [tag |-> tag, n |-> n, s |-> s, items |-> items]

ExprStr(c) == Expr("Str", c, "", <<>>)
ExprInt(i) == Expr("Int", i, "", <<>>)
ExprFloat(f) == Expr("Float", f, "", <<>>)
ExprNaN == Expr("Float", 0, "nan", <<>>)
ExprBool(b) == Expr("Bool", IF b THEN 1 ELSE 0, "", <<>>)
ExprIdent(id) == Expr("Ident", 0, id, <<>>)
ExprSeq(ys) == Expr("Seq", 0, "", ys)
ExprList(ys) == Expr("List", 0, "", ys)

unit == ExprList(<<>>)

\* The integers up to Exact are floats; above it (and below its double) only
\* every second integer is one. It stands for 2^53, the limit of f64.
Exact == 8

\* i as f64: the nearest float, the one with the even significand on a tie.
AsF64(i) ==
    IF i <= Exact \/ i % 2 = 0 THEN i
    ELSE IF (i \div 2) % 2 = 0 THEN i - 1 ELSE i + 1

\* The identifiers of the model in the order of their names.
IdentNames == <<"u", "x", "z">>

IdentRank(id) == CHOOSE k \in 1..Len(IdentNames) : IdentNames[k] = id

\* Option<Ordering>
Less == "Less"
Equal == "Equal"
Greater == "Greater"
Unordered == "Unordered"

\* partial_cmp of two numbers (i64, or f64 that are numbers), by which
\* strings, bools and lengths are ordered too.
CmpNat(a, b) == IF a < b THEN Less ELSE IF a = b THEN Equal ELSE Greater

\* f64::partial_cmp.
CmpFloat(a, anan, b, bnan) == IF anan \/ bnan THEN Unordered ELSE CmpNat(a, b)

RECURSIVE ExprEq(_, _)
RECURSIVE VecEq(_, _)

\* Vec<Expr>::eq
VecEq(a, b) ==
    /\ Len(a) = Len(b)
    /\ \A k \in 1..Len(a) : ExprEq(a[k], b[k])

\* impl PartialEq for Expr
ExprEq(a, b) ==
    CASE a.tag = "Str" /\ b.tag = "Str" -> a.n = b.n
      [] a.tag = "Bool" /\ b.tag = "Bool" -> a.n = b.n
      [] a.tag = "Ident" /\ b.tag = "Ident" -> a.s = b.s
      [] a.tag = "Seq" /\ b.tag = "Seq" -> VecEq(a.items, b.items)
      [] a.tag = "List" /\ b.tag = "List" -> VecEq(a.items, b.items)
      [] a.tag = "Int" /\ b.tag = "Int" -> a.n = b.n
      [] a.tag = "Float" /\ b.tag = "Float" ->
            CmpFloat(a.n, a.s = "nan", b.n, b.s = "nan") = Equal
      [] a.tag = "Int" /\ b.tag = "Float" ->
            CmpFloat(AsF64(a.n), FALSE, b.n, b.s = "nan") = Equal
      [] a.tag = "Float" /\ b.tag = "Int" ->
            CmpFloat(a.n, a.s = "nan", AsF64(b.n), FALSE) = Equal
      [] OTHER -> FALSE

RECURSIVE PartialCmp(_, _)
RECURSIVE VecCmp(_, _, _)
RECURSIVE SeqCmp(_, _)

\* Vec<Expr>::partial_cmp from element k on: the order of the first pair of
\* elements that are not Equal, and that of the lengths if there is none.
VecCmp(a, b, k) ==
    IF k > Len(a) \/ k > Len(b) THEN CmpNat(Len(a), Len(b))
    ELSE LET c == PartialCmp(a[k], b[k]) IN
         IF c = Equal THEN VecCmp(a, b, k + 1) ELSE c

SeqCmpByLength(a, b) == CmpNat(Len(a), Len(b))

\* (Expr::Seq(a), Expr::Seq(b)): the order of the lengths, and Vec's order
\* if they are equal.
SeqCmp(a, b) ==
    IF CmpNat(Len(a), Len(b)) = Equal THEN VecCmp(a, b, 1) ELSE CmpNat(Len(a), Len(b))

\* impl PartialOrd for Expr
PartialCmp(a, b) ==
    CASE a.tag = "Str" /\ b.tag = "Str" -> CmpNat(a.n, b.n)
      [] a.tag = "Bool" /\ b.tag = "Bool" -> CmpNat(a.n, b.n)
      [] a.tag = "Ident" /\ b.tag = "Ident" ->
            CmpNat(IdentRank(a.s), IdentRank(b.s))
      [] a.tag = "Seq" /\ b.tag = "Seq" -> SeqCmp(a.items, b.items)
      [] a.tag = "List" /\ b.tag = "List" -> VecCmp(a.items, b.items, 1)
      [] a.tag = "Int" /\ b.tag = "Int" -> CmpNat(a.n, b.n)
      [] a.tag = "Float" /\ b.tag = "Float" ->
            CmpFloat(a.n, a.s = "nan", b.n, b.s = "nan")
      [] a.tag = "Int" /\ b.tag = "Float" ->
            CmpFloat(AsF64(a.n), FALSE, b.n, b.s = "nan")
      [] a.tag = "Float" /\ b.tag = "Int" ->
            CmpFloat(a.n, a.s = "nan", AsF64(b.n), FALSE)
      [] OTHER -> Unordered

\* The provided methods of PartialOrd.
lt(a, b) == PartialCmp(a, b) = Less
gt(a, b) == PartialCmp(a, b) = Greater
ge(a, b) == PartialCmp(a, b) \in {Greater, Equal}
le(a, b) == PartialCmp(a, b) \in {Less, Equal}

\* ------------------------------------------------------------------ eval

\* enum Op: an entry of the control stack.
Op(op, n, e) == [op |-> op, n |-> n, e |-> e]

OpEval(e) == Op("Eval", 0, e)
OpAnd(n) == Op("And", n, unit)
OpOr(n) == Op("Or", n, unit)
OpNot == Op("Not", 0, unit)
OpIf == Op("If", 0, unit)
OpEq(n) == Op("Eq", n, unit)
OpGt(n) == Op("Gt", n, unit)
OpLt(n) == Op("Lt", n, unit)
OpMember == Op("Member", 0, unit)
OpSeq(n) == Op("Seq", n, unit)

\* enum EvalError
Unknown == "Unknown"
InvalidType == "InvalidType"
Malformed == "Malformed"
BindingNotFound == "BindingNotFound"
EvalError == {Unknown, InvalidType, Malformed, BindingNotFound}

\* How a call of eval stands: it runs, or it has returned Ok(val) or
\* Err(err), or it has panicked.
Outcome(kind, val, err) == [kind |-> kind, val |-> val, err |-> err]

NotCalled == Outcome("NotCalled", unit, "")
Running == Outcome("Running", unit, "")
Returned(val) == Outcome("Ok", val, "")
Failed(err) == Outcome("Err", unit, err)
Aborted == Outcome("Abort", unit, "")

\* The identifiers an environment may bind, and what it holds for one that
\* it does not bind.
Names == {"u", "x", "z"}
Unbound == Expr("Unbound", 0, "", <<>>)

\* ----------------------------------------------------------------- parse

\* A token of the lexer: its kind, and the number of an Integer or Float or
\* the code of a String in n, or the text of any other token in s.
Token(kind, n, s) == [kind |-> kind, n |-> n, s |-> s]

TokenInteger(i) == Token("Integer", i, "")
TokenFloat(f) == Token("Float", f, "")
TokenNaN == Token("Float", 0, "nan")
TokenString(c) == Token("String", c, "")
LParen == Token("LParen", 0, "(")
RParen == Token("RParen", 0, ")")
Reserved(v) == Token("Reserved", 0, v)
Keyword(v) == Token("Keyword", 0, v)
Id(v) == Token("Id", 0, v)
Whitespace == Token("Whitespace", 0, " ")

\* An integer literal that i64::from_str_radix rejects, and text that the
\* lexer rejects.
TokenOverflow == Token("Integer", 0, "overflow")
LexError == Token("Error", 0, "")

\* ident_pattern().is_match(v): of the words of the model only # has a
\* character that the pattern does not allow.
ident_pattern(v) == v # "#"

\* enum E of parse: an entry of its stack.
E(e, x) == [e |-> e, x |-> x]

Ex(x) == E("Ex", x)
Nx == E("Nx", unit)
La == E("La", unit)
Le == E("Le", unit)
Sa == E("Sa", unit)
Se == E("Se", unit)

\* How a call of parse stands: it runs, or it has returned Ok(Some(val)),
\* Ok(None) or Err(err), or it has panicked.
ParseOutcome(kind, val, err) == [kind |-> kind, val |-> val, err |-> err]

ParseNotCalled == ParseOutcome("NotCalled", unit, "")
Parsing == ParseOutcome("Running", unit, "")
ParsedSome(val) == ParseOutcome("Some", val, "")
ParsedNone == ParseOutcome("None", unit, "")
ParseError(err) == ParseOutcome("Err", unit, err)
ParsePanic == ParseOutcome("Abort", unit, "")

\* What parse was called with: the tokens of its argument s, and the
\* expressions es that Display wrote s for, if it did.
Source(display, es, s) == [display |-> display, es |-> es, s |-> s]

\* =================================================================== state

VARIABLES
    expr,              \* eval's argument expr
    bindings,          \* eval's argument env
    ctrl,              \* eval's control stack
    args,              \* eval's argument stack
    out                \* how the call of eval stands

evaluator == <<expr, bindings, ctrl, args, out>>

\* eval has not been called.
NotEvaluating ==
    /\ expr = unit
    /\ bindings = [id \in Names |-> Unbound]
    /\ ctrl = <<>>
    /\ args = <<>>
    /\ out = NotCalled

VARIABLES
    source,            \* parse's argument s
    lx,                \* parse's lexer: the tokens of s not yet read
    st,                \* parse's stack
    xs,                \* parse's expressions
    parsed             \* how the call of parse stands

reader == <<source, lx, st, xs, parsed>>

\* parse has not been called.
NotParsing ==
    /\ source = Source(FALSE, <<>>, <<>>)
    /\ lx = <<>>
    /\ st = <<>>
    /\ xs = <<>>
    /\ parsed = ParseNotCalled

VARIABLES
    compared,          \* three expressions a, b, c
    tested,            \* eq and partial_cmp were called on them
    eq,                \* eq[i][j]: compared[i] == compared[j]
    partial_cmp        \* partial_cmp[i][j]: compared[i].partial_cmp(&compared[j])

relations == <<compared, tested, eq, partial_cmp>>

\* No expressions are compared.
NotComparing ==
    /\ compared = <<>>
    /\ tested = FALSE
    /\ eq = <<>>
    /\ partial_cmp = <<>>

VARIABLES
    dir,               \* CliState.dir: how $OCKAM_HOME names the state directory
    files,             \* files[c][name]: the contents of <dir>/<c>/<name>.json
    link,              \* link[c]: where the symlink <dir>/<c>/default points
    call,              \* the last call on the state directory and its result
    created            \* the category and name of every create so far

directory == <<dir, files, link, call, created>>

\* The categories of the state directory that have a default, and the names
\* and configs of the vaults and identities stored in them.
Categories == {"vaults", "identities"}
StoreNames == {"v1", "v2"}
Configs == {"config1", "config2"}

\* No file, no symlink and no call.
NoFile == [exists |-> FALSE]
NoLink == [exists |-> FALSE]
NoCall == [op |-> None]

\* No state directory is open.
NotStored ==
    /\ dir = None
    /\ files = <<>>
    /\ link = <<>>
    /\ call = NoCall
    /\ created = {}

\* The state of the crates besides ockam_transport_tcp.
others == <<evaluator, reader, relations, directory>>

VARIABLES
    state,             \* TcpPortalWorker.state
    tx,                \* TcpPortalWorker.tx is Some
    rx,                \* TcpPortalWorker.rx is Some
    remote_route,      \* TcpPortalWorker.remote_route
    is_disconnecting,  \* TcpPortalWorker.is_disconnecting
    pc,                \* where the worker's life cycle or handler stands
    reason,            \* the reason of the start_disconnection under way
    result,            \* what the worker's last handler returned
    internalQ,         \* mailbox of the worker's internal address
    remoteQ,           \* mailbox of the worker's remote address
    net,               \* messages routed to the remote address, in flight
    pingSent,          \* the inlet's Ping is on its way to the outlet listener
    proc,              \* the worker's receive processor
    procRoute,         \* the receive processor's onward_route
    stream,            \* the worker's TCP stream
    reliable,          \* the node's services (send, start, stop) cannot fail
    strays,            \* stray messages the environment may still send
    reads,             \* non-empty reads the processors may still make
    discSent,          \* PortalMessage::Disconnect sent by the worker
    recvStarted,       \* receive processors started for the worker
    written,           \* payloads written to tx by the worker
    dropped,           \* the worker dropped a message as disconnecting
    ghost,             \* a Disconnect reached the worker's address after it stopped
    bothRx,            \* a worker started disconnection(FailedRx) during the
                       \* first sleep of its peer's disconnection(FailedRx)
    invoked            \* the worker's invocations of start_disconnection: the
                       \* reason of each, and whether it sent a Disconnect

fields == <<state, tx, rx, remote_route, is_disconnecting>>
runtime == <<pc, reason, result, internalQ, remoteQ, net, pingSent>>
procs == <<proc, procRoute, stream>>
env == <<reliable, strays, reads>>
history == <<discSent, recvStarted, written, dropped, ghost, bothRx, invoked>>
portal == <<fields, runtime, procs, env, history>>
vars == <<portal, evaluator, reader, relations, directory>>

\* What eval, parse, eq and partial_cmp, and the state directory leave alone.
exceptEval == <<portal, reader, relations, directory>>
exceptParse == <<portal, evaluator, relations, directory>>
exceptRelations == <<portal, evaluator, reader, directory>>
exceptDirectory == <<portal, evaluator, reader, relations>>

\* --------------------------------------------------------- access control

\* DenyAll authorizes no message.
DenyAll(m) == FALSE

\* The mailboxes start gives the worker: the internal one with DenyAll for
\* incoming and outgoing messages, the remote one with the caller's
\* access_control for incoming and DenyAll for outgoing messages.
InternalIncoming(m) == DenyAll(m)
InternalOutgoing(m) == DenyAll(m)
RemoteOutgoing(m) == DenyAll(m)

\* ------------------------------------------------------------------ Init

\* Faulty variant: start_new_outlet dialling before it starts the worker.
StreamAtStartAlways(w) == TRUE

\* The stream handed to start: Some(stream) by start_new_inlet, None by
\* start_new_outlet.
StreamAtStart(w) == w = Inlet

\* The inlet has been started on an accepted stream (start_new_inlet); the
\* outlet is started by the outlet listener when the Ping arrives.
Start(r) ==
    /\ state = [w \in TypeName |-> IF w = Inlet THEN InletState ELSE OutletState]
    /\ tx = [w \in TypeName |-> StreamAtStart(w)]
    /\ rx = [w \in TypeName |-> StreamAtStart(w)]
    /\ remote_route = [w \in TypeName |-> None]
    /\ is_disconnecting = [w \in TypeName |-> FALSE]
    /\ pc = [w \in TypeName |-> IF w = Inlet THEN "created" ELSE "absent"]
    /\ reason = [w \in TypeName |-> None]
    /\ result = [w \in TypeName |-> Ok]
    /\ internalQ = [w \in TypeName |-> <<>>]
    /\ remoteQ = [w \in TypeName |-> <<>>]
    /\ net = [w \in TypeName |-> <<>>]
    /\ pingSent = FALSE
    /\ proc = [w \in TypeName |-> "none"]
    /\ procRoute = [w \in TypeName |-> None]
    /\ stream = [w \in TypeName |-> IF StreamAtStart(w) THEN "open" ELSE "none"]
    /\ reliable = r
    /\ strays = MaxStray
    /\ reads = MaxReads
    /\ discSent = [w \in TypeName |-> 0]
    /\ recvStarted = [w \in TypeName |-> 0]
    /\ written = [w \in TypeName |-> 0]
    /\ dropped = [w \in TypeName |-> FALSE]
    /\ ghost = [w \in TypeName |-> FALSE]
    /\ bothRx = FALSE
    /\ invoked = [w \in TypeName |-> <<>>]

\* Calls into the node may fail.
Init ==
    Start(FALSE) /\ NotEvaluating /\ NotParsing /\ NotComparing /\ NotStored

\* ------------------------------------------------------- the node runtime

\* The worker's addresses are registered with the node: it was started and
\* has neither stopped nor been terminated by a failed handshake.
Alive(w) == pc[w] \notin {"absent", "stopped", "failed"}

\* The worker is suspended inside start_disconnection.
InTeardown(w) == pc[w] \in {"sleep_notify", "sleep_stop", "stop_worker"}

\* The worker waits for its next message (after stop_worker, until the stop
\* signal is taken).
Waiting(w) == pc[w] \in {"idle", "stopping"}

\* Whether a call into the node (send, start a processor, stop a worker)
\* succeeds.
Outcomes == IF reliable THEN {TRUE} ELSE BOOLEAN

\* ctx.send_from_address(route, msg, remote_address): the message travels to
\* the remote address of the worker the route leads to.
SendTo(route, m) ==
    IF route \in TypeName THEN [net EXCEPT ![route] = Append(@, m)] ELSE net

\* What the node does with a worker whose handler returned an error: during
\* the handshake the worker is terminated, afterwards it keeps running.
AfterError(w) == IF state[w] = Initialized THEN pc[w] ELSE "failed"

Returns(w, e) == result' = [result EXCEPT ![w] = e]

\* The worker's mailboxes after a step that left iq and rq in them: a worker
\* that stopped or was terminated is gone with what its mailboxes held.
Mailboxes(w, iq, rq) ==
    LET gone == pc'[w] \in {"stopped", "failed"} IN
    /\ internalQ' = [internalQ EXCEPT ![w] = IF gone THEN <<>> ELSE iq]
    /\ remoteQ' = [remoteQ EXCEPT ![w] = IF gone THEN <<>> ELSE rq]

\* --------------------------------------------------- TcpPortalWorker parts

\* Faulty variant: handle_message without its first test.
DropNever(w) == FALSE

\* handle_message's first test: a disconnecting worker drops the message.
DropMessage(w) == is_disconnecting[w]

\* Faulty variant: handle_send_ping returning the handshake's last state.
SendPingNextSkips == Initialized

\* handle_send_ping's result.
SendPingNext == ReceivePong

\* Faulty variant: handle_send_pong with its test of tx inverted for an outlet.
NeedsDialNever(w) == FALSE

\* handle_send_pong dials only a worker that holds no stream.
NeedsDial(w) == ~tx[w]

\* Faulty variant: start_receiver handing out rx and keeping it too.
RxAfterClone(w) == rx[w]

\* self.rx.take() leaves None in the worker.
RxAfterTake(w) == FALSE

\* start_receiver(onward_route); ok is the outcome of the processor's start.
\* It succeeds when the worker held rx and the processor started.
ReceiverStarts(w, ok) == rx[w] /\ ok

StartReceiver(w, route, ok) ==
    /\ rx' = [rx EXCEPT ![w] = RxAfterTake(w)]
    /\ IF ReceiverStarts(w, ok)
         THEN /\ proc' = [proc EXCEPT ![w] = "running"]
              /\ procRoute' = [procRoute EXCEPT ![w] = route]
              /\ recvStarted' = [recvStarted EXCEPT ![w] = @ + 1]
         ELSE UNCHANGED <<proc, procRoute, recvStarted>>

StartReceiverError(w) == IF rx[w] THEN SendError ELSE PortalInvalidState

\* Faulty variant: start_disconnection(FailedRx) without its notification.
NotifiesOnlyFailedTx(r) == r = FailedTx

\* Faulty variant: start_disconnection stopping the receiver for every reason.
StopsReceiverAlways(r) == r \in DisconnectionReason

\* The reasons for which start_disconnection notifies the remote, and those
\* for which it stops the receiver.
Notifies(r) == r \in {FailedTx, FailedRx}
StopsReceiver(r) == r \in {FailedRx, Remote}

\* Faulty variant: a start_disconnection that leaves the worker's fields as
\* they were (no latch, remote_route read but not taken).
DisconnectFieldsKept(w, r) ==
    [is_disconnecting |-> is_disconnecting[w], remote_route |-> remote_route[w]]

\* What start_disconnection(r) leaves in the worker's fields: the latch set,
\* and remote_route taken by notify_remote_about_disconnection.
DisconnectFields(w, r) ==
    [is_disconnecting |-> TRUE,
     remote_route |-> IF Notifies(r) THEN None ELSE remote_route[w]]

\* Faulty variant: stop_receiver propagating stop_processor's error.
IgnoreStopErrorNot == FALSE

\* stop_receiver ignores the error of stopping a processor that has stopped.
IgnoreStopError == TRUE

\* start_disconnection(r), up to its first sleep. ok is the outcome of the
\* send of notify_remote_about_disconnection.
StartDisconnection(w, r, ok) ==
    LET notify == Notifies(r) /\ remote_route[w] # None
        after == DisconnectFields(w, r) IN
    /\ is_disconnecting' = [is_disconnecting EXCEPT ![w] = after.is_disconnecting]
    /\ remote_route' = [remote_route EXCEPT ![w] = after.remote_route]
    /\ reason' = [reason EXCEPT ![w] = r]
    /\ bothRx' = (bothRx \/ (r = FailedRx /\ pc[Peer(w)] = "sleep_notify"
                                /\ reason[Peer(w)] = FailedRx))
    /\ IF notify /\ ok
         THEN /\ net' = SendTo(remote_route[w], Msg(Disconnect, w, FALSE))
              /\ discSent' = [discSent EXCEPT ![w] = @ + 1]
         ELSE UNCHANGED <<net, discSent>>
    /\ invoked' = [invoked EXCEPT ![w] =
          Append(@, [reason |-> r, sent |-> notify /\ ok])]
    /\ IF notify /\ ~ok
         THEN /\ Returns(w, SendError)
              /\ UNCHANGED pc
         ELSE /\ Returns(w, Ok)
              /\ pc' = [pc EXCEPT ![w] = IF Notifies(r) THEN "sleep_notify"
                                                       ELSE "sleep_stop"]
    /\ UNCHANGED <<state, tx, rx, proc, procRoute, recvStarted, written, dropped>>

\* ------------------------------------------------------------- initialize

\* Worker::initialize in state SendPing: handle_send_ping.
InitializeSendPing(w) ==
    /\ pc[w] = "created"
    /\ state[w] = SendPing
    /\ \E ok \in Outcomes :
         IF ok
           THEN /\ pingSent' = TRUE
                /\ state' = [state EXCEPT ![w] = SendPingNext]
                /\ pc' = [pc EXCEPT ![w] = "idle"]
                /\ Returns(w, Ok)
           ELSE /\ pc' = [pc EXCEPT ![w] = "failed"]
                /\ Returns(w, SendError)
                /\ UNCHANGED <<pingSent, state>>
    /\ Mailboxes(w, internalQ[w], remoteQ[w])
    /\ UNCHANGED <<tx, rx, remote_route, is_disconnecting, reason, net, procs,
                   env, history>>
    /\ UNCHANGED others

\* The outlet listener answers the Ping with start_new_outlet(peer, pong_route).
StartNewOutlet ==
    /\ pingSent
    /\ pc[Outlet] = "absent"
    /\ pingSent' = FALSE
    /\ pc' = [pc EXCEPT ![Outlet] = "created"]
    /\ UNCHANGED <<fields, reason, result, internalQ, remoteQ, net, procs, env,
                   history>>
    /\ UNCHANGED others

\* Worker::initialize in state SendPong: handle_send_pong, up to the dial.
InitializeSendPong(w) ==
    /\ pc[w] = "created"
    /\ state[w] = SendPong
    /\ \E ok \in Outcomes :
         IF ok
           THEN /\ net' = SendTo(PongRoute, Msg(Pong, w, FALSE))
                /\ pc' = [pc EXCEPT ![w] = "dial"]
                /\ UNCHANGED result
           ELSE /\ pc' = [pc EXCEPT ![w] = "failed"]
                /\ Returns(w, SendError)
                /\ UNCHANGED net
    /\ Mailboxes(w, internalQ[w], remoteQ[w])
    /\ UNCHANGED <<fields, reason, pingSent, procs, env, history>>
    /\ UNCHANGED others

\* handle_send_pong: TcpStream::connect(peer) and into_split, when the worker
\* holds no stream.
Dial(w) ==
    /\ pc[w] = "dial"
    /\ IF NeedsDial(w)
         THEN \E ok \in BOOLEAN :
                IF ok
                  THEN /\ tx' = [tx EXCEPT ![w] = TRUE]
                       /\ rx' = [rx EXCEPT ![w] = TRUE]
                       /\ stream' = [stream EXCEPT ![w] = "open"]
                       /\ pc' = [pc EXCEPT ![w] = "start_receiver"]
                       /\ UNCHANGED result
                  ELSE /\ pc' = [pc EXCEPT ![w] = "failed"]
                       /\ Returns(w, ConnectError)
                       /\ UNCHANGED <<tx, rx, stream>>
         ELSE /\ pc' = [pc EXCEPT ![w] = "pong_done"]
              /\ UNCHANGED <<tx, rx, stream, result>>
    /\ Mailboxes(w, internalQ[w], remoteQ[w])
    /\ UNCHANGED <<state, remote_route, is_disconnecting, reason, net, pingSent,
                   proc, procRoute, env, history>>
    /\ UNCHANGED others

\* handle_send_pong: start_receiver(pong_route) on the dialled stream.
StartOutletReceiver(w) ==
    /\ pc[w] = "start_receiver"
    /\ \E ok \in Outcomes :
         /\ StartReceiver(w, PongRoute, ok)
         /\ IF ReceiverStarts(w, ok)
              THEN /\ pc' = [pc EXCEPT ![w] = "pong_done"]
                   /\ UNCHANGED result
              ELSE /\ pc' = [pc EXCEPT ![w] = "failed"]
                   /\ Returns(w, StartReceiverError(w))
    /\ Mailboxes(w, internalQ[w], remoteQ[w])
    /\ UNCHANGED <<state, tx, remote_route, is_disconnecting, reason, net,
                   pingSent, stream, env, discSent, written, dropped, ghost,
                   bothRx, invoked>>
    /\ UNCHANGED others

\* handle_send_pong's end, and initialize's assignment of the state.
FinishSendPong(w) ==
    /\ pc[w] = "pong_done"
    /\ remote_route' = [remote_route EXCEPT ![w] = PongRoute]
    /\ state' = [state EXCEPT ![w] = Initialized]
    /\ pc' = [pc EXCEPT ![w] = "idle"]
    /\ Returns(w, Ok)
    /\ UNCHANGED <<tx, rx, is_disconnecting, reason, internalQ, remoteQ, net,
                   pingSent, procs, env, history>>
    /\ UNCHANGED others

\* --------------------------------------------------------- handle_message

\* if self.is_disconnecting { return Ok(()) }
Drop(w) ==
    /\ Returns(w, Ok)
    /\ dropped' = [dropped EXCEPT ![w] = TRUE]
    /\ UNCHANGED <<fields, pc, reason, net, proc, procRoute, discSent,
                   recvStarted, written, bothRx, invoked>>

\* return Err(e)
Fail(w, e) ==
    /\ Returns(w, e)
    /\ pc' = [pc EXCEPT ![w] = AfterError(w)]
    /\ UNCHANGED <<fields, reason, net, proc, procRoute, discSent,
                   recvStarted, written, dropped, bothRx, invoked>>

\* Faulty variant: a message the protocol does not allow is passed over.
ProtocolErrorIgnored(w) == Drop(w)

\* return Err(TransportError::Protocol.into())
ProtocolError(w) == Fail(w, Protocol)

\* Faulty variant: the Pong handled without remembering its return route.
RouteOnPongForgotten(m) == None

\* self.remote_route = Some(return_route), on the Pong.
RouteOnPong(m) == m.ret

\* State::ReceivePong, a Pong: start the receiver on the return route.
OnPong(w, m) ==
    \E ok \in Outcomes :
      /\ StartReceiver(w, m.ret, ok)
      /\ IF ReceiverStarts(w, ok)
           THEN /\ remote_route' = [remote_route EXCEPT ![w] = RouteOnPong(m)]
                /\ state' = [state EXCEPT ![w] = Initialized]
                /\ Returns(w, Ok)
                /\ UNCHANGED pc
           ELSE /\ Returns(w, StartReceiverError(w))
                /\ pc' = [pc EXCEPT ![w] = AfterError(w)]
                /\ UNCHANGED <<remote_route, state>>
      /\ UNCHANGED <<tx, is_disconnecting, reason, net, discSent, written,
                     dropped, bothRx, invoked>>

\* Faulty variant: the error of write_all returned by the handler.
OnWriteErrorPropagated(w) == Fail(w, SendError)

\* Err(err) of write_all: start_disconnection(FailedTx).
OnWriteError(w) == \E ok \in Outcomes : StartDisconnection(w, FailedTx, ok)

\* State::Initialized, PortalMessage::Payload: tx.write_all(payload).
OnPayload(w) ==
    IF tx[w]
      THEN \E wrote \in BOOLEAN :
             IF wrote
               THEN /\ written' = [written EXCEPT ![w] = @ + 1]
                    /\ Returns(w, Ok)
                    /\ UNCHANGED <<fields, pc, reason, net, proc, procRoute,
                                   discSent, recvStarted, dropped, bothRx, invoked>>
               ELSE OnWriteError(w)
      ELSE Fail(w, PortalInvalidState)

\* Faulty variant: handle_message without its test of the onward route.
HasNextHopNever(m) == FALSE

\* onward_route.next().is_ok(), after the step over the worker's own address.
HasNextHop(m) == m.hop

\* Faulty variant: an internal message in ReceivePong taken for the
\* receiver's Disconnect.
InternalInReceivePongDisconnects(w) ==
    \E ok \in Outcomes : StartDisconnection(w, FailedRx, ok)

\* State::ReceivePong, a message on the internal address.
InternalInReceivePong(w) == Fail(w, PortalInvalidState)

\* The body of handle_message for message m, taken from the internal mailbox
\* (recipient == internal_address) or from the remote one.
Handle(w, m, internal) ==
    IF DropMessage(w) THEN Drop(w)
    ELSE IF HasNextHop(m) THEN Fail(w, UnknownRoute)
    ELSE IF state[w] = ReceivePong THEN
        IF internal THEN InternalInReceivePong(w)
        ELSE IF m.kind # Pong THEN ProtocolError(w)
        ELSE OnPong(w, m)
    ELSE IF state[w] = Initialized THEN
        IF internal
          THEN \E ok \in Outcomes : StartDisconnection(w, FailedRx, ok)
        ELSE IF m.kind = Payload THEN OnPayload(w)
        ELSE IF m.kind = Disconnect
          THEN \E ok \in Outcomes : StartDisconnection(w, Remote, ok)
        ELSE ProtocolError(w)
    ELSE Fail(w, PortalInvalidState)

\* handle_message on the next message of the internal mailbox.
HandleInternal(w) ==
    /\ Waiting(w)
    /\ internalQ[w] # <<>>
    /\ Handle(w, Head(internalQ[w]), TRUE)
    /\ Mailboxes(w, Tail(internalQ[w]), remoteQ[w])
    /\ UNCHANGED <<pingSent, stream, env, ghost>>
    /\ UNCHANGED others

\* handle_message on the next message of the remote mailbox.
HandleRemote(w) ==
    /\ Waiting(w)
    /\ remoteQ[w] # <<>>
    /\ Handle(w, Head(remoteQ[w]), FALSE)
    /\ Mailboxes(w, internalQ[w], Tail(remoteQ[w]))
    /\ UNCHANGED <<pingSent, stream, env, ghost>>
    /\ UNCHANGED others

\* ----------------------------------------------------- start_disconnection

\* notify_remote_about_disconnection's sleep ends; FailedRx goes on to
\* stop_receiver, FailedTx to stop_worker.
WakeNotify(w) ==
    /\ pc[w] = "sleep_notify"
    /\ pc' = [pc EXCEPT ![w] = IF StopsReceiver(reason[w]) THEN "sleep_stop"
                                                         ELSE "stop_worker"]
    /\ UNCHANGED <<fields, reason, result, internalQ, remoteQ, net, pingSent,
                   procs, env, history>>
    /\ UNCHANGED others

\* stop_receiver after its sleep: stop_processor(receiver_address), whose
\* error (the processor has stopped, or never started) is ignored.
StopReceiver(w) ==
    /\ pc[w] = "sleep_stop"
    /\ proc' = [proc EXCEPT ![w] = IF @ = "running" THEN "stopped" ELSE @]
    /\ IF proc[w] = "running" \/ IgnoreStopError
         THEN /\ pc' = [pc EXCEPT ![w] = "stop_worker"]
              /\ UNCHANGED result
         ELSE /\ pc' = [pc EXCEPT ![w] = "idle"]
              /\ Returns(w, StopError)
    /\ UNCHANGED <<fields, reason, internalQ, remoteQ, net, pingSent,
                   procRoute, stream, env, history>>
    /\ UNCHANGED others

\* ctx.stop_worker(internal_address), and the handler's return.
StopWorker(w) ==
    /\ pc[w] = "stop_worker"
    /\ \E ok \in Outcomes :
         IF ok
           THEN /\ pc' = [pc EXCEPT ![w] = "stopping"]
                /\ Returns(w, Ok)
           ELSE /\ pc' = [pc EXCEPT ![w] = "idle"]
                /\ Returns(w, StopError)
    /\ UNCHANGED <<fields, reason, internalQ, remoteQ, net, pingSent, procs,
                   env, history>>
    /\ UNCHANGED others

\* The node takes the stop signal: the worker is gone, with what its
\* mailboxes still hold.
Stopped(w) ==
    /\ pc[w] = "stopping"
    /\ pc' = [pc EXCEPT ![w] = "stopped"]
    /\ Mailboxes(w, internalQ[w], remoteQ[w])
    /\ UNCHANGED <<fields, reason, result, net, pingSent, procs, env, history>>
    /\ UNCHANGED others

\* ------------------------------------------------------ the node's routing

\* A message in flight reaches the remote address: the mailbox of a worker
\* that is alive, and nothing otherwise.
Deliver(w) ==
    /\ net[w] # <<>>
    /\ net' = [net EXCEPT ![w] = Tail(@)]
    /\ IF Alive(w)
         THEN /\ remoteQ' = [remoteQ EXCEPT ![w] = Append(@, Head(net[w]))]
              /\ UNCHANGED ghost
         ELSE /\ ghost' = [ghost EXCEPT ![w] = @ \/ Head(net[w]).kind = Disconnect]
              /\ UNCHANGED remoteQ
    /\ UNCHANGED <<fields, pc, reason, result, internalQ, pingSent, procs, env,
                   discSent, recvStarted, written, dropped, bothRx, invoked>>
    /\ UNCHANGED others

\* ---------------------------------------------------- TcpPortalRecvProcessor

\* A non-empty read: PortalMessage::Payload along the onward route.
ProcRead(w) ==
    /\ proc[w] = "running"
    /\ stream[w] = "open"
    /\ reads > 0
    /\ reads' = reads - 1
    /\ net' = SendTo(procRoute[w], Msg(Payload, w, FALSE))
    /\ UNCHANGED <<fields, pc, reason, result, internalQ, remoteQ, pingSent,
                   procs, reliable, strays, history>>
    /\ UNCHANGED others

\* A read of zero bytes or an error: PortalInternalMessage::Disconnect to the
\* worker's internal address, and the processor ends.
ProcEOF(w) ==
    /\ proc[w] = "running"
    /\ stream[w] = "closed"
    /\ proc' = [proc EXCEPT ![w] = "stopped"]
    /\ internalQ' = [internalQ EXCEPT ![w] =
          IF Alive(w) THEN Append(@, Msg(InternalDisconnect, None, FALSE)) ELSE @]
    /\ UNCHANGED <<fields, pc, reason, result, remoteQ, net, pingSent,
                   procRoute, stream, env, history>>
    /\ UNCHANGED others

\* -------------------------------------------------------- the environment

\* The TCP peer of the worker's stream closes it.
CloseStream(w) ==
    /\ stream[w] = "open"
    /\ stream' = [stream EXCEPT ![w] = "closed"]
    /\ UNCHANGED <<fields, runtime, proc, procRoute, env, history>>
    /\ UNCHANGED others

\* The messages others may send to the remote address: any PortalMessage, and
\* one whose onward route goes on past the worker (whatever it holds).
StrayMessages ==
    {Msg(kind, Stray, FALSE) : kind \in PortalMessage} \cup {Msg(Payload, Stray, TRUE)}

\* handle_message on a message that is not the protocol's own and has just
\* reached the remote address (it may arrive at any time, so before any
\* message the mailbox holds).
HandleStrayRemote(w) ==
    /\ strays > 0
    /\ Waiting(w)
    /\ strays' = strays - 1
    /\ \E m \in StrayMessages : Handle(w, m, FALSE)
    /\ Mailboxes(w, internalQ[w], remoteQ[w])
    /\ UNCHANGED <<pingSent, stream, reliable, reads, ghost>>
    /\ UNCHANGED others

\* handle_message on a message that has just reached the internal address and
\* is not the receive processor's.
HandleStrayInternal(w) ==
    /\ strays > 0
    /\ Waiting(w)
    /\ strays' = strays - 1
    /\ Handle(w, Msg(InternalDisconnect, Stray, FALSE), TRUE)
    /\ Mailboxes(w, internalQ[w], remoteQ[w])
    /\ UNCHANGED <<pingSent, stream, reliable, reads, ghost>>
    /\ UNCHANGED others

\* start_disconnection(r) invoked on a worker that waits for its next
\* message, whether or not it was invoked on the worker before.
InvokeDisconnection(w, r) ==
    /\ Waiting(w)
    /\ state[w] = Initialized
    /\ Len(invoked[Inlet]) + Len(invoked[Outlet]) < MaxCalls
    /\ \E ok \in Outcomes : StartDisconnection(w, r, ok)
    /\ Mailboxes(w, internalQ[w], remoteQ[w])
    /\ UNCHANGED <<pingSent, stream, env, ghost>>
    /\ UNCHANGED others

\* ------------------------------------------------------------------- Spec

\* The steps of the workers, the processors and the node.
Portal ==
    \/ StartNewOutlet
    \/ \E w \in TypeName :
         \/ InitializeSendPing(w)
         \/ InitializeSendPong(w)
         \/ Dial(w)
         \/ StartOutletReceiver(w)
         \/ FinishSendPong(w)
         \/ HandleInternal(w)
         \/ HandleRemote(w)
         \/ WakeNotify(w)
         \/ StopReceiver(w)
         \/ StopWorker(w)
         \/ Stopped(w)
         \/ Deliver(w)
         \/ ProcEOF(w)

\* What the TCP peers do.
Streams == \E w \in TypeName : ProcRead(w) \/ CloseStream(w)

Strays == \E w \in TypeName : HandleStrayRemote(w) \/ HandleStrayInternal(w)

Next == Portal \/ Streams \/ Strays

Spec == Init /\ [][Next]_vars

\* The portal between two nodes whose services do not fail and whose
\* addresses no one else sends to. Every step of a worker, a processor or the
\* node that can be taken is taken in the end; the TCP peers are free.
LiveInit ==
    Start(TRUE) /\ NotEvaluating /\ NotParsing /\ NotComparing /\ NotStored

LiveNext == Portal \/ Streams

LiveSpec == LiveInit /\ [][LiveNext]_vars /\ WF_vars(Portal)

\* The portal with start_disconnection also invoked directly, between nodes
\* whose services do not fail and TCP peers that send nothing before they
\* close their streams.
Invocations == \E w \in TypeName, r \in DisconnectionReason : InvokeDisconnection(w, r)

Closes == \E w \in TypeName : CloseStream(w)

InvokeNext == Portal \/ Closes \/ Invocations

\* handle_message invoked on a worker that start has constructed and whose
\* initialize has not run: its state is SendPing or SendPong.
HandleEarly(w, m, internal) ==
    /\ pc[w] = "created"
    /\ strays > 0
    /\ strays' = strays - 1
    /\ Handle(w, m, internal)
    /\ Mailboxes(w, internalQ[w], remoteQ[w])
    /\ UNCHANGED <<pingSent, stream, reliable, reads, ghost>>
    /\ UNCHANGED others

Early ==
    \E w \in TypeName :
      \/ \E m \in StrayMessages : HandleEarly(w, m, FALSE)
      \/ HandleEarly(w, Msg(InternalDisconnect, Stray, FALSE), TRUE)

\* The portal with handle_message also invoked before initialize.
EarlyNext == Portal \/ Closes \/ Strays \/ Early

EarlySpec == Init /\ [][EarlyNext]_vars

InvokeSpec == LiveInit /\ [][InvokeNext]_vars

\* ===================================================================== eval

\* Env::get and Env::contains.
EnvGet(id) == IF id \in Names THEN bindings[id] ELSE Unbound
EnvContains(id) == EnvGet(id) # Unbound

\* Vec::last, and the stack without its last n entries, and those entries.
Top(stk) == stk[Len(stk)]
Without(stk, n) == SubSeq(stk, 1, Len(stk) - n)
LastN(stk, n) == SubSeq(stk, Len(stk) - n + 1, Len(stk))

\* The first of a set of positions.
Least(S) == CHOOSE k \in S : \A j \in S : k <= j

\* for e in es.iter().rev() { ctrl.push(Op::Eval(e)) }
PushEvals(es) == [k \in 1..Len(es) |-> OpEval(es[Len(es) + 1 - k])]

\* The loop of eval takes x from the control stack.
Pops(op) == out = Running /\ ctrl # <<>> /\ Top(ctrl).op = op

PopsEval(tag) == Pops("Eval") /\ Top(ctrl).e.tag = tag

\* The loop goes on with control stack c and argument stack a.
GoesOn(c, a) ==
    /\ ctrl' = c
    /\ args' = a
    /\ UNCHANGED <<expr, bindings, out, exceptEval>>

\* eval returns or panics.
Ends(o) ==
    /\ out' = o
    /\ UNCHANGED <<expr, bindings, ctrl, args, exceptEval>>

\* Op::Eval(Expr::Ident(id))
EvalIdent ==
    /\ PopsEval("Ident")
    /\ LET id == Top(ctrl).e.s IN
       IF EnvContains(id)
         THEN GoesOn(Append(Without(ctrl, 1), OpEval(EnvGet(id))), args)
         ELSE Ends(Failed(BindingNotFound))

\* The operators pushed for the head of a form with n operands.
HeadNames == {"and", "or", "not", "if", "<", ">", "=", "!=", "member?"}

HeadOps(id, n) ==
    CASE id = "and" -> <<OpAnd(n)>>
      [] id = "or" -> <<OpOr(n)>>
      [] id = "not" -> <<OpNot>>
      [] id = "if" -> <<OpIf>>
      [] id = "<" -> <<OpLt(n)>>
      [] id = ">" -> <<OpGt(n)>>
      [] id = "=" -> <<OpEq(n)>>
      [] id = "!=" -> <<OpNot, OpEq(n)>>
      [] id = "member?" -> <<OpMember>>

\* Op::Eval(Expr::List(es)), es empty
EvalUnit ==
    /\ PopsEval("List")
    /\ Top(ctrl).e.items = <<>>
    /\ GoesOn(Without(ctrl, 1), Append(args, unit))

\* Op::Eval(Expr::List(es)), es led by the identifier of an operator: the
\* operator, then the operands in reverse.
EvalForm ==
    /\ PopsEval("List")
    /\ LET es == Top(ctrl).e.items IN
       /\ es # <<>>
       /\ es[1].tag = "Ident"
       /\ es[1].s \in HeadNames
       /\ GoesOn(Without(ctrl, 1) \o HeadOps(es[1].s, Len(es) - 1)
                   \o PushEvals(Tail(es)), args)

\* The loop of exists? over es ends at the first operand that is not an
\* identifier or is an identifier without a binding.
ExistsStopsAt(es) ==
    LET stop == {k \in 1..Len(es) : es[k].tag # "Ident" \/ ~EnvContains(es[k].s)}
    IN IF stop = {} THEN Len(es) + 1 ELSE Least(stop)

\* Op::Eval(Expr::List(es)), es led by exists?
EvalExists ==
    /\ PopsEval("List")
    /\ LET es == Top(ctrl).e.items IN
       /\ es # <<>>
       /\ es[1] = ExprIdent("exists?")
       /\ LET ids == Tail(es)
              k == ExistsStopsAt(ids) IN
          IF k <= Len(ids) /\ ids[k].tag # "Ident"
            THEN Ends(Failed(InvalidType))
            ELSE GoesOn(Without(ctrl, 1), Append(args, ExprBool(k > Len(ids))))

\* Op::Eval(Expr::List(es)), es led by another identifier, or by an
\* expression that is no identifier.
EvalOther ==
    /\ PopsEval("List")
    /\ LET es == Top(ctrl).e.items IN
       /\ es # <<>>
       /\ IF es[1].tag = "Ident"
            THEN es[1].s \notin HeadNames \cup {"exists?"} /\ Ends(Failed(Unknown))
            ELSE Ends(Failed(InvalidType))

\* Op::Eval(Expr::Seq(es))
EvalSeq ==
    /\ PopsEval("Seq")
    /\ LET es == Top(ctrl).e.items IN
       GoesOn(Append(Without(ctrl, 1), OpSeq(Len(es))) \o PushEvals(es), args)

\* Op::Eval(expr), any other expr
EvalAtom ==
    /\ Pops("Eval")
    /\ Top(ctrl).e.tag \in {"Str", "Int", "Float", "Bool"}
    /\ GoesOn(Without(ctrl, 1), Append(args, Top(ctrl).e))

\* Op::And(n) with continue = true, Op::Or(n) with continue = false: the last
\* n arguments are drained up to the first that is not Bool(continue).
Junction(n, continue) ==
    IF Len(args) < n THEN Ends(Aborted)
    ELSE LET ys == LastN(args, n)
             stop == {k \in 1..n : ys[k] # ExprBool(continue)} IN
         IF stop = {}
           THEN GoesOn(Without(ctrl, 1), Append(Without(args, n), ExprBool(continue)))
         ELSE IF ys[Least(stop)].tag = "Bool"
           THEN GoesOn(Without(ctrl, 1), Append(Without(args, n), ExprBool(~continue)))
         ELSE Ends(Failed(InvalidType))

ApplyAnd == Pops("And") /\ Junction(Top(ctrl).n, TRUE)

ApplyOr == Pops("Or") /\ Junction(Top(ctrl).n, FALSE)

\* Op::Not
ApplyNot ==
    /\ Pops("Not")
    /\ IF args = <<>> THEN Ends(Failed(Malformed))
       ELSE IF Top(args).tag = "Bool"
         THEN GoesOn(Without(ctrl, 1),
                     Append(Without(args, 1), ExprBool(Top(args).n = 0)))
       ELSE Ends(Failed(InvalidType))

\* Op::If
ApplyIf ==
    /\ Pops("If")
    /\ IF Len(args) < 3 THEN Ends(Failed(Malformed))
       ELSE LET f == args[Len(args)]
                t == args[Len(args) - 1]
                x == args[Len(args) - 2] IN
            IF x.tag = "Bool"
              THEN GoesOn(Without(ctrl, 1),
                          Append(Without(args, 3), IF x.n = 1 THEN t ELSE f))
              ELSE Ends(Failed(InvalidType))

\* x != y for no later operand y, x the first operand.
AllEqFirst(ys) == \A k \in 2..Len(ys) : ExprEq(ys[1], ys[k])

\* x >= y for no two adjacent operands x, y.
NoneGe(ys) == \A k \in 1..(Len(ys) - 1) : ~ge(ys[k], ys[k + 1])

\* x <= y for no two adjacent operands x, y.
NoneLe(ys) == \A k \in 1..(Len(ys) - 1) : ~le(ys[k], ys[k + 1])

\* The b that Op::Eq, Op::Lt and Op::Gt compute from their operands.
Holds(op, ys) ==
    CASE op = "Eq" -> AllEqFirst(ys)
      [] op = "Lt" -> NoneGe(ys)
      [] op = "Gt" -> NoneLe(ys)

\* Op::Eq(n), Op::Lt(n) and Op::Gt(n): the test of the argument stack, the
\* index of the first of the n operands, and the result pushed in their place.
Compare(op, n) ==
    IF Len(args) < 2 THEN Ends(Failed(Malformed))
    ELSE IF n = 0 \/ n > Len(args) THEN Ends(Aborted)
    ELSE GoesOn(Without(ctrl, 1),
                Append(Without(args, n), ExprBool(Holds(op, LastN(args, n)))))

ApplyEq == Pops("Eq") /\ Compare("Eq", Top(ctrl).n)

ApplyLt == Pops("Lt") /\ Compare("Lt", Top(ctrl).n)

ApplyGt == Pops("Gt") /\ Compare("Gt", Top(ctrl).n)

\* Op::Member
ApplyMember ==
    /\ Pops("Member")
    /\ IF Len(args) < 2 THEN Ends(Failed(Malformed))
       ELSE LET ys == args[Len(args)]
                x == args[Len(args) - 1] IN
            IF ys.tag = "Seq"
              THEN GoesOn(Without(ctrl, 1),
                     Append(Without(args, 2),
                       ExprBool(\E k \in 1..Len(ys.items) : ExprEq(ys.items[k], x))))
              ELSE Ends(Failed(InvalidType))

\* The Seq of the last n values of the stack (split_off, Expr::Seq).
CollectedAsList(stk, n) == ExprList(LastN(stk, n))
Collected(stk, n) == ExprSeq(LastN(stk, n))

\* Op::Seq(n)
ApplySeq ==
    /\ Pops("Seq")
    /\ LET n == Top(ctrl).n IN
       IF n > Len(args) THEN Ends(Aborted)
       ELSE GoesOn(Without(ctrl, 1), Append(Without(args, n), Collected(args, n)))

\* The control stack is empty: debug_assert_eq!(1, args.len()), which a
\* build without debug assertions leaves out, and Ok(args.pop().unwrap()).
Return ==
    /\ out = Running
    /\ ctrl = <<>>
    /\ IF Len(args) = 1 THEN Ends(Returned(args[1]))
       ELSE IF args = <<>> THEN Ends(Aborted)
       ELSE \E debug_assertions \in BOOLEAN :
              Ends(IF debug_assertions THEN Aborted ELSE Returned(Top(args)))

\* ------------------------------------------------------ the calls of eval

\* The environments: the empty one, and one that binds x to an Int and z to
\* an identifier that has no binding.
EmptyEnv == [id \in Names |-> Unbound]

SomeEnv ==
    [id \in Names |-> CASE id = "x" -> ExprInt(1)
                        [] id = "z" -> ExprIdent("u")
                        [] OTHER -> Unbound]

Envs == {EmptyEnv, SomeEnv}

\* The expressions without operands: Bools, a small Int, two Ints beyond
\* Exact that have the same float, that float, two identifiers and a Seq.
Atoms ==
    {ExprBool(TRUE), ExprBool(FALSE), ExprInt(1), ExprInt(Exact),
     ExprInt(Exact + 1), ExprFloat(Exact), ExprIdent("x"), ExprIdent("z"),
     ExprSeq(<<ExprInt(1)>>)}

\* The atoms by kind, for the forms with most operands.
Truths == {ExprBool(TRUE), ExprBool(FALSE), ExprIdent("x")}
Numbers == {ExprInt(Exact), ExprInt(Exact + 1), ExprFloat(Exact)}
FewAtoms == {ExprBool(TRUE), ExprInt(1)}

\* What may lead a List: the operators, an identifier that is none, and an
\* expression that is no identifier.
Heads ==
    {ExprIdent(id) : id \in HeadNames \cup {"exists?", "foo"}} \cup {ExprInt(1)}

\* The Lists of a head and up to n operands.
Forms(operands, n) ==
    {ExprList(<<h>> \o es) :
        h \in Heads, es \in UNION {[1..k -> operands] : k \in 0..n}}

\* Forms whose last or only operand is a form itself, and Seqs of them.
Nested ==
    LET inner == Forms(FewAtoms, MaxOperands - 1)
        outer == {<<f>> : f \in inner}
                   \cup {<<a, f>> : a \in FewAtoms, f \in inner}
                   \cup {<<f, a>> : f \in inner, a \in FewAtoms}
    IN {ExprList(<<h>> \o es) : h \in Heads, es \in outer}
         \cup {ExprSeq(es) : es \in outer}

\* Expressions of Seqs and atoms only: a Str, the Float that is no number,
\* and Seqs of these, of unit and of Seqs; and forms that return them.
Values ==
    {ExprStr(1), ExprNaN, ExprSeq(<<>>), ExprSeq(<<ExprNaN>>),
     ExprSeq(<<unit, ExprBool(FALSE)>>),
     ExprSeq(<<ExprSeq(<<ExprInt(1), ExprStr(1)>>), ExprFloat(Exact)>>)}
ValueForms ==
    {ExprList(<<ExprIdent("if"), ExprBool(b), v, ExprSeq(<<v, ExprIdent("x")>>)>>) :
        b \in BOOLEAN, v \in {ExprStr(1), ExprNaN, unit}}

\* The expressions eval is called with: forms of up to MaxOperands operands
\* of one kind, forms of fewer operands of any kinds, nested ones, and
\* values.
Inputs ==
    Atoms \cup {unit}
      \cup Forms(Truths, MaxOperands) \cup Forms(Numbers, MaxOperands)
      \cup Forms(Atoms, MaxOperands - 1) \cup Nested
      \cup Values \cup ValueForms

\* let mut ctrl = Vec::new(); let mut args = Vec::new();
\* ctrl.push(Op::Eval(expr));
EvalInit ==
    /\ Start(FALSE)
    /\ NotParsing
    /\ NotComparing
    /\ NotStored
    /\ expr \in Inputs
    /\ bindings \in Envs
    /\ ctrl = <<OpEval(expr)>>
    /\ args = <<>>
    /\ out = Running

EvalNext ==
    \/ EvalIdent
    \/ EvalUnit
    \/ EvalForm
    \/ EvalExists
    \/ EvalOther
    \/ EvalSeq
    \/ EvalAtom
    \/ ApplyAnd
    \/ ApplyOr
    \/ ApplyNot
    \/ ApplyIf
    \/ ApplyEq
    \/ ApplyLt
    \/ ApplyGt
    \/ ApplyMember
    \/ ApplySeq
    \/ Return

EvalSpec == EvalInit /\ [][EvalNext]_vars

\* An environment whose bindings refer to each other: x is bound to the
\* identifier z and z to the identifier x.
CyclicEnv ==
    [id \in Names |-> CASE id = "x" -> ExprIdent("z")
                        [] id = "z" -> ExprIdent("x")
                        [] OTHER -> Unbound]

\* eval called with any of the environments, the cyclic one included.
CyclicInit ==
    /\ Start(FALSE)
    /\ NotParsing
    /\ NotComparing
    /\ NotStored
    /\ expr \in Inputs
    /\ bindings \in Envs \cup {CyclicEnv}
    /\ ctrl = <<OpEval(expr)>>
    /\ args = <<>>
    /\ out = Running

\* eval's loop goes on for as long as ctrl holds an Op.
CyclicSpec == CyclicInit /\ [][EvalNext]_vars /\ WF_vars(EvalNext)

\* ================================================================ Display

\* The tokens the lexer makes of the text that Display writes for an
\* expression without elements: a word is a float, a keyword, an id or a
\* reserved token by its characters.
Lexed(e) ==
    CASE e.tag = "Str" -> TokenString(e.n)
      [] e.tag = "Int" -> TokenInteger(e.n)
      [] e.tag = "Float" -> IF e.s = "nan" THEN TokenNaN ELSE TokenFloat(e.n)
      [] e.tag = "Bool" -> Keyword(IF e.n = 1 THEN "true" ELSE "false")
      [] e.tag = "Ident" ->
            CASE e.s = "nan" -> TokenNaN
              [] e.s = "$z" -> Id(e.s)
              [] e.s = "#" -> Reserved(e.s)
              [] OTHER -> Keyword(e.s)

\* enum E of Display: an entry of its stack.
X(e) == [e |-> "X", x |-> e]
L == [e |-> "L", x |-> unit]
S == [e |-> "S", x |-> unit]
W == [e |-> "W", x |-> unit]

\* for e in es.iter().rev() { stack.push(E::X(e)); if n > 1 { stack.push(E::W) } n -= 1 }
Frames(es) ==
    [j \in 1..(2 * Len(es) - 1) |->
        IF j % 2 = 1 THEN X(es[Len(es) - (j \div 2)]) ELSE W]

RECURSIVE Write(_)

\* The loop of fmt over its stack, and what it writes.
Write(stack) ==
    IF stack = <<>> THEN <<>>
    ELSE LET e == Top(stack)
             rest == Without(stack, 1) IN
         CASE e.e = "L" -> <<RParen>> \o Write(rest)
           [] e.e = "S" -> <<Reserved("]")>> \o Write(rest)
           [] e.e = "W" -> <<Whitespace>> \o Write(rest)
           [] e.e = "X" /\ e.x.tag = "List" ->
                 <<LParen>> \o Write(Append(rest, L) \o Frames(e.x.items))
           [] e.e = "X" /\ e.x.tag = "Seq" ->
                 <<Reserved("[")>> \o Write(Append(rest, S) \o Frames(e.x.items))
           [] OTHER -> <<Lexed(e.x)>> \o Write(rest)

\* impl fmt::Display for Expr
Display(x) == Write(<<X(x)>>)

RECURSIVE Text(_)

\* Expressions written one after the other with whitespace between them.
Text(es) ==
    IF es = <<>> THEN <<>>
    ELSE IF Len(es) = 1 THEN Display(es[1])
    ELSE Display(es[1]) \o <<Whitespace>> \o Text(Tail(es))

\* ================================================================== parse

RECURSIVE Skipped(_)

\* fn next: the lexer after the whitespace and comments ahead of it.
Skipped(l) ==
    IF l # <<>> /\ Head(l).kind = "Whitespace" THEN Skipped(Tail(l)) ELSE l

\* The loop of parse takes E::Nx from the stack and next() returns a token
\* of one of the kinds.
TakesToken(kinds) ==
    /\ parsed = Parsing
    /\ st # <<>>
    /\ Top(st) = Nx
    /\ Skipped(lx) # <<>>
    /\ Head(Skipped(lx)).kind \in kinds

\* The loop goes on with stack s, the token read.
Shifts(s) ==
    /\ st' = s
    /\ lx' = Tail(Skipped(lx))
    /\ UNCHANGED <<source, xs, parsed, exceptParse>>

\* The loop goes on with stack s, no token read.
Reduces(s) ==
    /\ st' = s
    /\ UNCHANGED <<source, lx, xs, parsed, exceptParse>>

\* parse returns or panics.
ParseEnds(o) ==
    /\ parsed' = o
    /\ UNCHANGED <<source, lx, st, xs, exceptParse>>

\* E::Nx, None: continue
NxNone ==
    /\ parsed = Parsing
    /\ st # <<>>
    /\ Top(st) = Nx
    /\ Skipped(lx) = <<>>
    /\ st' = Without(st, 1)
    /\ lx' = <<>>
    /\ UNCHANGED <<source, xs, parsed, exceptParse>>

\* The expression of a token that is one.
Atom(tk) ==
    CASE tk.kind = "Integer" -> ExprInt(tk.n)
      [] tk.kind = "Float" -> IF tk.s = "nan" THEN ExprNaN ELSE ExprFloat(tk.n)
      [] tk.kind = "String" -> ExprStr(tk.n)
      [] tk.kind = "Keyword" -> ExprBool(tk.s = "true")
      [] tk.kind = "Id" -> ExprIdent(tk.s)

\* E::Nx, next(&mut lx)? or i64::from_str_radix(s, r)? fails
NxError ==
    /\ TakesToken({"Error", "Integer"})
    /\ LET tk == Head(Skipped(lx)) IN
       /\ tk \in {LexError, TokenOverflow}
       /\ ParseEnds(ParseError(IF tk = LexError THEN "lexer" ELSE "integer"))

\* E::Nx, Integer, Float, String, Keyword("true"), Keyword("false"), Id
NxAtom ==
    /\ TakesToken({"Integer", "Float", "String", "Keyword", "Id"})
    /\ LET tk == Head(Skipped(lx)) IN
       /\ tk # TokenOverflow
       /\ tk.kind = "Keyword" => tk.s \in {"true", "false"}
       /\ Shifts(Without(st, 1) \o <<Ex(Atom(tk)), Nx>>)

\* E::Nx, LParen and Reserved("[")
NxOpen ==
    /\ TakesToken({"LParen", "Reserved"})
    /\ LET tk == Head(Skipped(lx)) IN
       /\ tk \in {LParen, Reserved("[")}
       /\ Shifts(Without(st, 1) \o <<IF tk = LParen THEN La ELSE Sa, Nx>>)

PushCloseUnderNx(s, e) == s \o <<Nx, e>>

\* st.push(E::Le), st.push(E::Se)
PushClose(s, e) == Append(s, e)

\* E::Nx, RParen and Reserved("]")
NxClose ==
    /\ TakesToken({"RParen", "Reserved"})
    /\ LET tk == Head(Skipped(lx)) IN
       /\ tk \in {RParen, Reserved("]")}
       /\ Shifts(PushClose(Without(st, 1), IF tk = RParen THEN Le ELSE Se))

\* E::Nx, any other Keyword(v) or Reserved(v)
NxWord ==
    /\ TakesToken({"Keyword", "Reserved"})
    /\ LET tk == Head(Skipped(lx)) IN
       /\ tk.s \notin {"true", "false", "[", "]"}
       /\ IF ident_pattern(tk.s)
            THEN Shifts(Without(st, 1) \o <<Ex(ExprIdent(tk.s)), Nx>>)
            ELSE /\ ParseEnds(ParseError("invalid token"))

\* E::Ex(x) => xs.push(x)
PopEx ==
    /\ parsed = Parsing
    /\ st # <<>>
    /\ Top(st).e = "Ex"
    /\ st' = Without(st, 1)
    /\ xs' = Append(xs, Top(st).x)
    /\ UNCHANGED <<source, lx, parsed, exceptParse>>

\* v.reverse() and xs.reverse()
Reverse(v) == [j \in 1..Len(v) |-> v[Len(v) + 1 - j]]

ReverseVNot(v) == v

ReverseV(v) == Reverse(v)

ReverseXsNot(v) == v

ReverseXs(v) == Reverse(v)

\* The message for the entry that ends the collection of a List's or a
\* Seq's elements and is not its opener.
Unmatched(e) ==
    CASE e = "Le" -> "')' without matching '('"
      [] e = "Se" -> "']' without matching '['"
      [] e = "Sa" -> "'[' without matching ']'"
      [] e = "La" -> "'(' without matching ')'"

\* E::Le with opener La and E::Se with opener Sa: while let Some(x) = st.pop()
\* takes the entries above the topmost one that is no E::Ex, and that entry;
\* with no such entry it takes the whole stack.
Collect(opener, tag) ==
    LET s == Without(st, 1)
        stop == {k \in 1..Len(s) : s[k].e # "Ex"}
        k == IF stop = {} THEN 0 ELSE CHOOSE i \in stop : \A j \in stop : j <= i
        v == [j \in 1..(Len(s) - k) |-> s[Len(s) + 1 - j].x]
    IN IF k = 0 \/ s[k] = opener
         THEN Reduces(SubSeq(s, 1, k - 1) \o <<Ex(Expr(tag, 0, "", ReverseV(v))), Nx>>)
       ELSE IF s[k] = Nx THEN ParseEnds(ParsePanic)
       ELSE ParseEnds(ParseError(Unmatched(s[k].e)))

\* E::Le
CloseList == parsed = Parsing /\ st # <<>> /\ Top(st) = Le /\ Collect(La, "List")

\* E::Se
CloseSeq == parsed = Parsing /\ st # <<>> /\ Top(st) = Se /\ Collect(Sa, "Seq")

\* E::La and E::Sa
Unclosed ==
    /\ parsed = Parsing
    /\ st # <<>>
    /\ Top(st) \in {La, Sa}
    /\ ParseEnds(ParseError(IF Top(st) = La THEN "unclosed '('" ELSE "unclosed '['"))

\* match xs.len()
ParseReturn ==
    /\ parsed = Parsing
    /\ st = <<>>
    /\ ParseEnds(IF xs = <<>> THEN ParsedNone
                 ELSE IF Len(xs) = 1 THEN ParsedSome(xs[1])
                 ELSE ParsedSome(ExprList(ReverseXs(xs))))

\* ----------------------------------------------------- the calls of parse

\* The expressions without elements that are written: one of each variant,
\* the Float that is no number, and identifiers that are read as an id, as a
\* Bool and as a token that is no identifier.
PrintAtoms ==
    {ExprStr(1), ExprInt(1), ExprFloat(1), ExprNaN, ExprBool(TRUE),
     ExprIdent("x"), ExprIdent("$z"), ExprIdent("true"), ExprIdent("#")}

FewPrinted == {ExprInt(1), ExprIdent("x")}

\* The Seqs and Lists of up to n of the items.
Flat(items, n) ==
    UNION {{ExprSeq(es), ExprList(es)} :
              es \in UNION {[1..k -> items] : k \in 0..n}}

\* Seqs and Lists of Seqs and Lists.
Deep ==
    LET inner == Flat(FewPrinted, MaxItems)
        outer == {<<f>> : f \in inner}
                   \cup {<<a, f>> : a \in FewPrinted, f \in inner}
                   \cup {<<f, a>> : f \in inner, a \in FewPrinted}
                   \cup {<<f, g>> : f \in inner, g \in inner}
    IN UNION {{ExprSeq(es), ExprList(es)} : es \in outer}

\* The expressions that are written, one or several to a text.
Printables == PrintAtoms \cup Flat(PrintAtoms, MaxItems) \cup Deep

Several ==
    UNION {[1..k -> FewPrinted \cup Flat(FewPrinted, MaxItems - 1)] : k \in 0..MaxItems}

\* The tokens of the texts that are not written by Display.
Alphabet ==
    {LParen, RParen, Reserved("["), Reserved("]"), TokenInteger(1),
     Keyword("x"), Reserved("#"), TokenOverflow, LexError}

Texts == UNION {[1..k -> Alphabet] : k \in 0..MaxTokens}

\* let mut lx = Lexer::new(s); let mut xs = Vec::new();
\* let mut st = Vec::new(); st.push(E::Nx);
ParseInit ==
    /\ Start(FALSE)
    /\ NotEvaluating
    /\ NotComparing
    /\ NotStored
    /\ \/ \E es \in {<<x>> : x \in Printables} \cup Several :
            source = Source(TRUE, es, Text(es))
       \/ \E s \in Texts : source = Source(FALSE, <<>>, s)
    /\ lx = source.s
    /\ st = <<Nx>>
    /\ xs = <<>>
    /\ parsed = Parsing

ParseNext ==
    \/ NxNone
    \/ NxError
    \/ NxAtom
    \/ NxOpen
    \/ NxClose
    \/ NxWord
    \/ PopEx
    \/ CloseList
    \/ CloseSeq
    \/ Unclosed
    \/ ParseReturn

\* The loop of parse runs on until parse returns or panics.
ParseSpec == ParseInit /\ [][ParseNext]_vars /\ WF_vars(ParseNext)

\* ===================================================== eq and partial_cmp

\* Numbers of which the Ints are turned into the same float, and the one
\* float that is equal to both.
Mixed == {ExprInt(Exact), ExprInt(Exact + 1), ExprFloat(Exact)}

FewMixed == {ExprInt(Exact), ExprFloat(Exact)}

\* The elements of a Seq or List of up to n of the items.
Vectors(items, n) == UNION {[1..k -> items] : k \in 0..n}

\* The expressions that are compared: one or more of each variant, the Float
\* that is no number, and Seqs and Lists of numbers.
Comparables ==
    Mixed \cup {ExprNaN, ExprBool(TRUE), ExprStr(1), ExprIdent("x")}
      \cup {ExprSeq(v) : v \in Vectors(Mixed, MaxItems)}
      \cup {ExprList(v) : v \in Vectors(FewMixed, MaxItems)}

RelateInit ==
    /\ Start(FALSE)
    /\ NotEvaluating
    /\ NotParsing
    /\ NotStored
    /\ compared \in Comparables \X Comparables \X Comparables
    /\ tested = FALSE
    /\ eq = [i \in 1..3 |-> [j \in 1..3 |-> FALSE]]
    /\ partial_cmp = [i \in 1..3 |-> [j \in 1..3 |-> Unordered]]

\* a == b and a.partial_cmp(&b) for every two of the three expressions.
Relate ==
    /\ ~tested
    /\ compared # <<>>
    /\ tested' = TRUE
    /\ eq' = [i \in 1..3 |-> [j \in 1..3 |-> ExprEq(compared[i], compared[j])]]
    /\ partial_cmp' =
          [i \in 1..3 |-> [j \in 1..3 |-> PartialCmp(compared[i], compared[j])]]
    /\ UNCHANGED <<compared, exceptRelations>>

RelateNext == Relate

RelateSpec == RelateInit /\ [][RelateNext]_vars

\* ------------------------------------------------------ the state directory

\* How $OCKAM_HOME names the state directory: by its canonical path, or by
\* another path to it, one that goes through a symlink.
Dirs == {"canonical", "aliased"}

\* <d>/<c>/<name>.json, the path of a config file.
Path(d, c, name) == [dir |-> d, category |-> c, name |-> name]

\* std::fs::canonicalize of the path of an existing file: the symlinks on the
\* way are resolved.
canonicalize(path) == [path EXCEPT !.dir = "canonical"]

\* serde_json::to_string and serde_json::from_str of a config.
to_string(config) == [json |-> config]
from_str(contents) == contents.json

\* VaultState and IdentityState, equal when path and config are.
Stored(path, config) == [path |-> path, config |-> config]

\* What a call returns: Ok(state) or an error.
OkState(s) == [kind |-> Ok, state |-> s]
Fails == [kind |-> "Err"]

Called(op, c, name, res) ==
    [op |-> op, category |-> c, name |-> name, result |-> res]

\* std::fs::read_to_string(path) and from_str of what was read, as a state
\* with the path p.
ReadState(c, name, p) ==
    IF files[c][name] = NoFile
    THEN Fails
    ELSE OkState(Stored(p, from_str(files[c][name])))

\* VaultsState::get, IdentitiesState::get.
get(c, name) == ReadState(c, name, Path(dir, c, name))

\* VaultsState::default, IdentitiesState::default: without the symlink, or
\* with no file where it points, canonicalize fails.
default(c) ==
    IF link[c] = NoLink
    THEN Fails
    ELSE ReadState(c, link[c].original.name, canonicalize(link[c].original))

\* VaultsState::create, IdentitiesState::create: the file is written, over an
\* older one of the name if there is one.
Create(c, name, config) ==
    /\ files' = [files EXCEPT ![c][name] = to_string(config)]
    /\ created' = created \cup {<<c, name>>}
    /\ call' = Called("create", c, name,
                      OkState(Stored(Path(dir, c, name), config)))
    /\ UNCHANGED <<dir, link, exceptDirectory>>

CallGet(c, name) ==
    /\ call' = Called("get", c, name, get(c, name))
    /\ UNCHANGED <<dir, files, link, created, exceptDirectory>>

CallDefault(c) ==
    /\ call' = Called("default", c, None, default(c))
    /\ UNCHANGED <<dir, files, link, created, exceptDirectory>>

\* VaultsState::set_default, IdentitiesState::set_default: symlink fails when
\* <c>/default exists; it makes the link whether or not the original exists,
\* and the original is read after that.
SetDefault(c, name) ==
    LET original == Path(dir, c, name) IN
    /\ IF link[c] # NoLink
       THEN /\ call' = Called("set_default", c, name, Fails)
            /\ UNCHANGED link
       ELSE /\ link' = [link EXCEPT ![c] = [original |-> original]]
            /\ call' = Called("set_default", c, name,
                              ReadState(c, name, original))
    /\ UNCHANGED <<dir, files, created, exceptDirectory>>

\* CliState::new on a state directory nothing has been created in.
StoreInit ==
    /\ Start(FALSE)
    /\ NotEvaluating
    /\ NotParsing
    /\ NotComparing
    /\ dir \in Dirs
    /\ files = [c \in Categories |-> [name \in StoreNames |-> NoFile]]
    /\ link = [c \in Categories |-> NoLink]
    /\ call = NoCall
    /\ created = {}

Creates == \E c \in Categories, name \in StoreNames, config \in Configs :
              Create(c, name, config)
Gets == \E c \in Categories, name \in StoreNames : CallGet(c, name)
Defaults == \E c \in Categories : CallDefault(c)
SetsDefault == \E c \in Categories, name \in StoreNames : SetDefault(c, name)

StoreNext == Creates \/ Gets \/ Defaults \/ SetsDefault

StoreSpec == StoreInit /\ [][StoreNext]_vars

\* ----------------------------------------------------------------- claims

\* handle_message is invoked on worker w in this step.
HandlesMessage(w) ==
    \/ HandleInternal(w)
    \/ HandleRemote(w)
    \/ HandleStrayRemote(w)
    \/ HandleStrayInternal(w)

\* C1: once is_disconnecting is set it is never cleared, and every message
\* the worker handles afterwards is dropped: handle_message returns Ok,
\* changes no field of the worker, sends nothing and writes nothing to tx.
C1_LatchDropsMessages ==
    [][\A w \in TypeName :
         is_disconnecting[w] =>
           /\ is_disconnecting'[w]
           /\ HandlesMessage(w) =>
                /\ result'[w] = Ok
                /\ state'[w] = state[w]
                /\ tx'[w] = tx[w]
                /\ rx'[w] = rx[w]
                /\ remote_route'[w] = remote_route[w]
                /\ net' = net
                /\ pingSent' = pingSent
                /\ discSent' = discSent
                /\ written' = written
                /\ proc' = proc]_vars

\* A worker that had written a payload and then sent its Disconnect has
\* since dropped a message.
C1_Witness ==
    \E w \in TypeName :
      is_disconnecting[w] /\ dropped[w] /\ written[w] > 0 /\ discSent[w] = 1

\* C2: a worker sends at most one PortalMessage::Disconnect to its peer,
\* whatever internal Disconnects, remote Disconnects and failing writes reach it.
C2_AtMostOneDisconnect == \A w \in TypeName : discSent[w] <= 1

\* A worker that sent its Disconnect after a failed write was handed another
\* message later.
C2_Witness ==
    \E w \in TypeName : discSent[w] = 1 /\ reason[w] = FailedTx /\ dropped[w]

\* C3: the state of a worker only advances along the path of its role, inlet
\* SendPing -> ReceivePong -> Initialized and outlet SendPong -> Initialized,
\* and the state of a disconnecting worker does not change.
C3_StateAdvances ==
    /\ state[Inlet] = SendPing
    /\ state[Outlet] = SendPong
    /\ [][\A w \in TypeName :
            state'[w] # state[w] =>
              /\ ~is_disconnecting[w]
              /\ <<w, state[w], state'[w]>> \in
                    {<<Inlet, SendPing, ReceivePong>>,
                     <<Inlet, ReceivePong, Initialized>>,
                     <<Outlet, SendPong, Initialized>>}]_vars

\* Both workers went through their handshakes and one is disconnecting.
C3_Witness ==
    /\ state[Inlet] = Initialized
    /\ state[Outlet] = Initialized
    /\ is_disconnecting[Inlet]
    /\ dropped[Inlet]

\* The receive processor of w has read the end of its stream and sent the
\* internal Disconnect, with both workers Initialized.
StreamClosedAt(w) ==
    /\ \A v \in TypeName : state[v] = Initialized /\ Alive(v)
    /\ proc[w] = "stopped"
    /\ internalQ[w] # <<>>

BothStopped == \A v \in TypeName : pc[v] = "stopped"

\* C4: with both workers Initialized, once the TCP stream of one side has
\* closed both workers stop in the end; and no worker stops before one of
\* them has sent Disconnect to its peer.
C4_HangupStopsBoth ==
    /\ [](\A w \in TypeName :
            pc[w] = "stopped" => discSent[Inlet] + discSent[Outlet] >= 1)
    /\ \A w \in TypeName : StreamClosedAt(w) ~> BothStopped

\* The inlet's stream closed: the inlet notified the outlet, the outlet
\* stopped its receiver, and both have stopped.
C4_Witness ==
    /\ BothStopped
    /\ reason[Inlet] = FailedRx
    /\ discSent[Inlet] = 1
    /\ reason[Outlet] = Remote
    /\ discSent[Outlet] = 0
    /\ proc[Outlet] = "stopped"

\* C5: when both workers start disconnection with reason FailedRx at nearly
\* the same time (one during the other's first sleep), no handler fails and
\* no Disconnect reaches the address of a worker that has stopped.
C5_SimultaneousHangup ==
    bothRx => \A w \in TypeName : result[w] = Ok /\ ~ghost[w]

\* An internal Disconnect of the receiver and a Disconnect of the peer are
\* both pending for an Initialized worker, each next in its mailbox.
BothPending(w) ==
    /\ state[w] = Initialized
    /\ pc[w] = "idle"
    /\ ~is_disconnecting[w]
    /\ internalQ[w] # <<>>
    /\ remoteQ[w] # <<>>
    /\ Head(remoteQ[w]).kind = Disconnect

\* C6: with an internal and a remote Disconnect both pending for an
\* Initialized worker, whichever is handled first, no handler of the worker
\* returns an error and the worker and its receiver end up stopped.
C6_BothOrdersTolerated ==
    \A w \in TypeName :
      /\ [](BothPending(w) => [](result[w] = Ok))
      /\ BothPending(w) ~> (pc[w] = "stopped" /\ proc[w] = "stopped")

\* The remote Disconnect was handled first: the teardown is done and the
\* internal Disconnect is still in the mailbox.
C6_Witness ==
    \E w \in TypeName :
      /\ reason[w] = Remote
      /\ pc[w] = "stopping"
      /\ internalQ[w] # <<>>
      /\ discSent[Peer(w)] = 1

\* The outlet has seen the session end: it is gone or disconnecting, or its
\* stream is at its end.
OutletEnded ==
    \/ ~Alive(Outlet)
    \/ is_disconnecting[Outlet]
    \/ stream[Outlet] = "closed"

\* Nothing is on its way to the outlet, which waits for its next message.
OutletQuiet ==
    /\ state[Outlet] = Initialized
    /\ pc[Outlet] = "idle"
    /\ net[Outlet] = <<>>
    /\ remoteQ[Outlet] = <<>>
    /\ internalQ[Outlet] = <<>>

\* C7: an inlet in ReceivePong that receives a portal message other than
\* Pong terminates with a Protocol error, its receive processor is never
\* started, and the outlet observes the end of the session (EOF or a
\* Disconnect) instead of being left running.
C7_ProtocolViolationEndsSession ==
    (pc[Inlet] = "failed" /\ state[Inlet] = ReceivePong /\ result[Inlet] = Protocol)
      => /\ recvStarted[Inlet] = 0
         /\ OutletQuiet => OutletEnded

\* C8: a worker that is Initialized has had exactly one receive processor
\* started, and no worker ever has a second one started.
C8_OneReceiver ==
    \A w \in TypeName :
      /\ recvStarted[w] <= 1
      /\ state[w] = Initialized => recvStarted[w] = 1

\* An Initialized inlet was sent another Pong (or a Ping) and refused it.
C8_Witness ==
    /\ state[Inlet] = Initialized
    /\ result[Inlet] = Protocol
    /\ recvStarted[Inlet] = 1
    /\ state[Outlet] = Initialized

\* C9 as claimed: remote_route is Some exactly when the state is Initialized,
\* teardown included.
C9_RouteIffInitialized ==
    \A w \in TypeName : remote_route[w] # None <=> state[w] = Initialized

\* C9 amended: remote_route is None in SendPing, SendPong and ReceivePong, and
\* in Initialized it is Some until start_disconnection with reason FailedTx or
\* FailedRx takes it.
C9_RouteSomeUntilTaken ==
    \A w \in TypeName :
      /\ remote_route[w] # None => state[w] = Initialized
      /\ (state[w] = Initialized /\ remote_route[w] = None) =>
           (is_disconnecting[w] /\ reason[w] \in {FailedTx, FailedRx})

\* A worker in teardown after notifying its peer: Initialized, no remote_route.
C9_Witness ==
    \E w \in TypeName :
      /\ state[w] = Initialized
      /\ remote_route[w] = None
      /\ discSent[w] = 1
      /\ remote_route[Peer(w)] = w

\* The actors that hold the read half of the worker's stream.
RxOwners(w) ==
    {a \in {"worker", "processor"} :
        \/ a = "worker" /\ Alive(w) /\ rx[w]
        \/ a = "processor" /\ proc[w] = "running"}

\* C10: no half of the stream has two owners: a worker with a stream holds
\* its tx; the worker holds rx until start_receiver, and once a receive
\* processor was started the worker's rx is None and only the processor, while
\* it runs, holds it.
C10_StreamHalvesSingleOwner ==
    \A w \in TypeName :
      /\ Cardinality(RxOwners(w)) <= 1
      /\ (Alive(w) /\ stream[w] # "none") => tx[w]
      /\ (Alive(w) /\ stream[w] # "none" /\ state[w] # Initialized
             /\ pc[w] # "pong_done") => RxOwners(w) = {"worker"}
      /\ recvStarted[w] > 0 => ~rx[w]
      /\ proc[w] = "running" => RxOwners(w) = {"processor"}

\* Both workers have handed their read halves to running receive processors.
C10_Witness ==
    \A w \in TypeName :
      Alive(w) /\ tx[w] /\ ~rx[w] /\ proc[w] = "running" /\ written[Inlet] = 1

C12_PongBeforeDial ==
    /\ [](pc[Outlet] \in {"absent", "created"} =>
            ~tx[Outlet] /\ ~rx[Outlet] /\ stream[Outlet] = "none")
    /\ [][stream'[Outlet] # stream[Outlet] /\ stream[Outlet] = "none"
            => pc[Outlet] = "dial"]_vars
    /\ [][pc'[Outlet] = "dial" /\ pc[Outlet] # "dial"
            => /\ net'[PongRoute] = Append(net[PongRoute], Msg(Pong, Outlet, FALSE))
               /\ stream[Outlet] = "none"]_vars
    /\ []((\/ recvStarted[Outlet] > 0
           \/ remote_route[Outlet] # None
           \/ state[Outlet] = Initialized)
            => stream[Outlet] # "none" /\ tx[Outlet])

\* The outlet's handshake is done: the Pong reached the inlet, which is
\* Initialized, and the outlet has dialled and started its receiver.
C12_Witness ==
    /\ state[Outlet] = Initialized
    /\ stream[Outlet] = "open"
    /\ recvStarted[Outlet] = 1
    /\ remote_route[Outlet] = PongRoute
    /\ remote_route[Inlet] = Outlet

\* The worker has sent a message of this kind from its remote address.
SentFromRemote(w, kind) ==
    \/ kind = Ping /\ w = Inlet /\ state[w] # SendPing
    \/ kind = Pong /\ w = Outlet /\ state[w] = Initialized
    \/ kind = Disconnect /\ discSent[w] > 0

\* C13: the outgoing access control of a worker's remote mailbox permits the
\* worker's own sends from the remote address (Ping, Pong, Disconnect).
C13_OwnSendsPermitted ==
    \A w \in TypeName : \A kind \in {Ping, Pong, Disconnect} :
      SentFromRemote(w, kind) => RemoteOutgoing(Msg(kind, w, FALSE))

\* The call of eval has ended.
Finished == out.kind \in {"Ok", "Err", "Abort"}

\* e is the form (id e1 ... en), and its operands.
IsForm(e, id) == e.tag = "List" /\ e.items # <<>> /\ e.items[1] = ExprIdent(id)
Operands(e) == Tail(e.items)

\* An expression that evaluates to itself.
Literal(e) == e.tag \in {"Str", "Int", "Float", "Bool"}

\* The expressions eval evaluates: the called one, and the elements of a Seq
\* or the operands of an operator other than exists? directly inside it.
Evaluated ==
    {expr} \cup
    (IF expr.tag = "Seq"
       THEN {expr.items[k] : k \in 1..Len(expr.items)}
     ELSE IF \E id \in HeadNames : IsForm(expr, id)
       THEN {expr.items[k] : k \in 2..Len(expr.items)}
     ELSE {})

\* The operand b is written in es after nothing but its negation.
Decided(es, b) ==
    \E k \in 1..Len(es) :
      es[k] = ExprBool(b) /\ \A j \in 1..(k - 1) : es[j] = ExprBool(~b)

\* C14: (and e1 ... en) with a false operand after none but true ones returns
\* Bool(false) whatever the later operands are, unbound identifiers included,
\* and (or e1 ... en) returns Bool(true) at the first true operand.
C14_ShortCircuit ==
    Finished =>
      /\ (IsForm(expr, "and") /\ Decided(Operands(expr), FALSE))
            => out = Returned(ExprBool(FALSE))
      /\ (IsForm(expr, "or") /\ Decided(Operands(expr), TRUE))
            => out = Returned(ExprBool(TRUE))

\* C15: eval returns Ok or one of the typed errors and never aborts, for
\* every expression and environment.
C15_NeverAborts ==
    /\ out.kind # "Abort"
    /\ out.kind = "Err" => out.err \in EvalError

\* Every two adjacent operands are in this order.
Chain(es, order) ==
    \A k \in 1..(Len(es) - 1) : PartialCmp(es[k], es[k + 1]) = order

\* C16: (< e1 ... en), n >= 2, is Bool(true) exactly if partial_cmp is Less
\* for every two adjacent operands, and (> e1 ... en) exactly if it is
\* Greater, for operands of any variants.
C16_StrictlyOrdered ==
    \A id \in {"<", ">"} :
      (/\ Finished
       /\ IsForm(expr, id)
       /\ Len(Operands(expr)) >= 2
       /\ \A k \in 1..Len(Operands(expr)) : Literal(Operands(expr)[k]))
      => out = Returned(ExprBool(
                 Chain(Operands(expr), IF id = "<" THEN Less ELSE Greater)))

\* Every two operands are equal.
AllEqual(es) == \A j, k \in 1..Len(es) : j < k => ExprEq(es[j], es[k])

\* C17: (= e1 ... en), n >= 2, is Bool(true) exactly if all operands are
\* equal under the equality of Expr, and (!= e1 ... en) is its negation.
C17_AllEqual ==
    \A id \in {"=", "!="} :
      (/\ Finished
       /\ IsForm(expr, id)
       /\ Len(Operands(expr)) >= 2
       /\ \A k \in 1..Len(Operands(expr)) : Literal(Operands(expr)[k]))
      => out = Returned(ExprBool(AllEqual(Operands(expr)) <=> id = "="))

\* C18: (exists? id1 ... idn) is InvalidType whenever an operand is not an
\* identifier, and otherwise Bool(true) exactly if every identifier is bound;
\* no identifier is resolved.
C18_ExistsInspects ==
    (Finished /\ IsForm(expr, "exists?")) =>
      LET ids == Operands(expr) IN
      IF \E k \in 1..Len(ids) : ids[k].tag # "Ident"
        THEN out = Failed(InvalidType)
        ELSE out = Returned(ExprBool(\A k \in 1..Len(ids) : EnvContains(ids[k].s)))

\* A form of fixed arity with another number of operands.
WrongCount(e) ==
    \/ IsForm(e, "not") /\ Len(Operands(e)) # 1
    \/ IsForm(e, "if") /\ Len(Operands(e)) # 3
    \/ IsForm(e, "member?") /\ Len(Operands(e)) # 2

\* C19: not with other than one operand, if with other than three and
\* member? with other than two never yield a value, at the top of the
\* expression or inside another form: eval ends with an error.
C19_FixedArity ==
    (Finished /\ \E e \in Evaluated : WrongCount(e)) => out.kind = "Err"

\* A comparison with fewer than two operands.
ShortComparison(e) ==
    \E id \in {"=", "!=", "<", ">"} : IsForm(e, id) /\ Len(Operands(e)) <= 1

\* C20: =, !=, < and > with no or one operand yield no value, at the top of
\* the expression or inside another form: eval ends with an error.
C20_ComparisonArity ==
    (Finished /\ \E e \in Evaluated : ShortComparison(e)) => out.kind = "Err"

\* C21: whenever eval returns Ok, the argument stack held exactly one value
\* when the control stack emptied, the returned one.
C21_OneValueAtReturn ==
    out.kind = "Ok" => args = <<out.val>>

\* The call of parse has ended.
ParseEnded == parsed.kind \in {"Some", "None", "Err", "Abort"}

RECURSIVE WellFormed(_)

\* Every identifier in x is a word that matches the pattern of identifiers
\* and is not the text of a Bool or a Float.
WellFormed(x) ==
    CASE x.tag = "Ident" -> ident_pattern(x.s) /\ x.s \notin {"true", "false", "nan"}
      [] x.tag \in {"Seq", "List"} -> \A k \in 1..Len(x.items) : WellFormed(x.items[k])
      [] OTHER -> TRUE

RECURSIVE NoNaN(_)

\* No Float in x is NaN.
NoNaN(x) ==
    CASE x.tag = "Float" -> x.s # "nan"
      [] x.tag \in {"Seq", "List"} -> \A k \in 1..Len(x.items) : NoNaN(x.items[k])
      [] OTHER -> TRUE

\* parse was called with the text of the one expression x.
ParsedTextOf(x) == ParseEnded /\ source = Source(TRUE, <<x>>, Display(x))

\* C22: for every well-formed expression x without NaN, parse of the text
\* that Display writes for x returns Some expression equal to x, Seqs and
\* Lists with their elements in the same order.
C22_RoundTrip ==
    (ParseEnded /\ source.display /\ Len(source.es) = 1) =>
      LET x == source.es[1] IN
      /\ ParsedTextOf(x)
      /\ (WellFormed(x) /\ NoNaN(x))
            => parsed.kind = "Some" /\ ExprEq(x, parsed.val)

\* A List of a Seq of two elements and an atom was written, parsed and
\* returned.
C22_Witness ==
    /\ parsed.kind = "Some"
    /\ source.display /\ Len(source.es) = 1
    /\ LET x == source.es[1] IN
       /\ x.tag = "List" /\ Len(x.items) = 2
       /\ x.items[1].tag = "Seq" /\ Len(x.items[1].items) = 2
       /\ x.items[1].items[1] # x.items[1].items[2]
       /\ ParsedTextOf(x)
       /\ parsed = ParsedSome(x)

RECURSIVE Unbalanced(_, _)

\* The delimiters of the tokens s, read after the openers open, are not
\* balanced: a closer has no opener or closes an opener of the other kind,
\* or an opener is never closed.
Unbalanced(s, open) ==
    IF s = <<>> THEN open # <<>>
    ELSE IF Head(s) \in {LParen, Reserved("[")}
      THEN Unbalanced(Tail(s), Append(open, Head(s)))
    ELSE IF Head(s) \in {RParen, Reserved("]")}
      THEN \/ open = <<>>
           \/ Top(open) # (IF Head(s) = RParen THEN LParen ELSE Reserved("["))
           \/ Unbalanced(Tail(s), Without(open, 1))
    ELSE Unbalanced(Tail(s), open)

\* C23: parse of a text whose delimiters are unbalanced ends with an error
\* and yields no expression.
C23_UnbalancedFails ==
    (ParseEnded /\ Unbalanced(source.s, <<>>)) => parsed.kind = "Err"

\* C24: parse of the text of well-formed expressions returns None for no
\* expression, the expression itself for one, and for several a single List
\* of all of them in the order of the text.
C24_TopLevel ==
    (/\ ParseEnded
     /\ source.display
     /\ \A k \in 1..Len(source.es) : WellFormed(source.es[k]))
    => parsed = (IF source.es = <<>> THEN ParsedNone
                 ELSE IF Len(source.es) = 1 THEN ParsedSome(source.es[1])
                 ELSE ParsedSome(ExprList(source.es)))

\* A text of two different expressions, the second a Seq, was parsed and
\* returned as the List of the two.
C24_Witness ==
    /\ ParseEnded
    /\ source.display
    /\ Len(source.es) = 2
    /\ source.es[1] = ExprIdent("x")
    /\ source.es[2].tag = "Seq"
    /\ parsed = ParsedSome(ExprList(source.es))

\* E::Nx is on parse's stack at most once, and on its top.
NxOnTopOnly == \A k \in 1..(Len(st) - 1) : st[k] # Nx

\* C25: parse panics on no text: E::Nx is never met below the top of the
\* stack, and every call ends, with an error or with Ok.
C25_NeverPanics ==
    /\ [](parsed.kind # "Abort" /\ NxOnTopOnly)
    /\ [](parsed.kind = "Running" => <>(parsed.kind \in {"Err", "Some", "None"}))

\* Of a text that Display did not write, a Seq or List was closed inside an
\* open one: its elements were collected from under E::Nx.
C25_Witness ==
    /\ ~source.display
    /\ parsed = Parsing
    /\ Len(st) >= 3
    /\ Top(st) = Nx
    /\ st[1] \in {La, Sa}
    /\ st[Len(st) - 1].e = "Ex"
    /\ st[Len(st) - 1].x.tag \in {"Seq", "List"}
    /\ st[Len(st) - 1].x.items # <<>>

\* The variants of a and b are the same, or Int and Float.
SameKind(a, b) == a.tag = b.tag \/ {a.tag, b.tag} = {"Int", "Float"}

\* C26: for all expressions a and b, a == b exactly if partial_cmp is Equal
\* in both orders of the arguments, a < b exactly if partial_cmp(a, b) is
\* Less, a > b exactly if b < a, and expressions of different variants other
\* than Int and Float are neither equal nor ordered.
C26_OrderAgreesWithEq ==
    tested =>
      \A i, j \in 1..3 :
        LET a == compared[i]
            b == compared[j] IN
        /\ eq[i][j] <=> (partial_cmp[i][j] = Equal /\ partial_cmp[j][i] = Equal)
        /\ lt(a, b) <=> partial_cmp[i][j] = Less
        /\ gt(a, b) <=> lt(b, a)
        /\ ~SameKind(a, b) => ~eq[i][j] /\ partial_cmp[i][j] = Unordered

\* A Seq of an Int and a Seq of a Float were found equal, and both less than
\* a longer Seq that begins with a smaller number.
C26_Witness ==
    /\ tested
    /\ compared[1] = ExprSeq(<<ExprInt(Exact + 1)>>)
    /\ compared[2] = ExprSeq(<<ExprFloat(Exact)>>)
    /\ compared[3] = ExprSeq(<<ExprInt(Exact), ExprInt(Exact)>>)
    /\ eq[1][2] /\ partial_cmp[2][1] = Equal
    /\ partial_cmp[1][3] = Less /\ partial_cmp[3][2] = Greater

\* C27: equality of expressions is symmetric and transitive, Ints and Floats
\* compared with each other included.
C27_EqEquivalence ==
    tested =>
      /\ \A i, j \in 1..3 : eq[i][j] => eq[j][i]
      /\ \A i, j, k \in 1..3 : (eq[i][j] /\ eq[j][k]) => eq[i][k]

\* C28: a < b and b < c imply a < c, and a > b and b > c imply a > c, for
\* atoms and for Seqs and Lists of Ints and Floats.
C28_StrictTransitive ==
    tested =>
      \A i, j, k \in 1..3 : \A o \in {Less, Greater} :
        (partial_cmp[i][j] = o /\ partial_cmp[j][k] = o) => partial_cmp[i][k] = o

\* C29: for vaults and identities alike, get(name) after create(name, config)
\* returns a state equal to the created one, get of a name that was never
\* created fails, and default() after a set_default(name) that succeeded
\* returns the same state as get(name).
C29_StoredStates ==
    /\ call.op = "create" => get(call.category, call.name) = call.result
    /\ (call.op = "get" /\ <<call.category, call.name>> \notin created)
          => call.result = Fails
    /\ (call.op = "set_default" /\ call.result # Fails)
          => default(call.category) = get(call.category, call.name)

\* The steps of start_disconnection on worker w: it is invoked, it stops the
\* receiver, it stops the worker.
Invoking(w) == Len(invoked'[w]) = Len(invoked[w]) + 1
StoppingReceiver(w) == pc[w] = "sleep_stop" /\ pc'[w] # "sleep_stop"
StoppingWorker(w) == pc[w] = "stop_worker" /\ pc'[w] # "stop_worker"

\* C30: start_disconnection performs its steps in a fixed order. It sets
\* is_disconnecting first, also when the send that follows fails; for
\* FailedTx it sends the Disconnect and never stops the receiver; for
\* FailedRx it sends the Disconnect and stops the receiver after that; for
\* Remote it sends no Disconnect and stops the receiver; and stop_worker on
\* the internal address comes after these and is the last step: nothing is
\* sent, stopped or invoked by the worker afterwards.
C30_FixedOrder ==
    [][\A w \in TypeName :
        /\ Invoking(w) =>
              LET i == invoked'[w][Len(invoked'[w])] IN
              /\ is_disconnecting'[w]
              /\ reason'[w] = i.reason
              /\ proc'[w] = proc[w]
              /\ Notifies(i.reason) =>
                    /\ i.sent \/ result'[w] = SendError
                    /\ i.sent => (discSent'[w] = discSent[w] + 1
                                   /\ pc'[w] = "sleep_notify")
              /\ i.reason = Remote =>
                    ~i.sent /\ discSent'[w] = discSent[w] /\ pc'[w] = "sleep_stop"
        /\ (pc[w] = "sleep_notify" /\ pc'[w] # "sleep_notify") =>
              /\ proc'[w] = proc[w]
              /\ pc'[w] = IF reason[w] = FailedRx THEN "sleep_stop"
                                                  ELSE "stop_worker"
        /\ StoppingReceiver(w) =>
              /\ reason[w] \in {FailedRx, Remote}
              /\ is_disconnecting[w]
              /\ invoked[w][Len(invoked[w])].sent = (reason[w] = FailedRx)
              /\ discSent'[w] = discSent[w]
              /\ proc'[w] # "running"
        /\ (pc'[w] = "stop_worker" /\ pc[w] # "stop_worker") =>
              \/ reason[w] = FailedTx /\ pc[w] = "sleep_notify"
              \/ reason[w] \in {FailedRx, Remote} /\ pc[w] = "sleep_stop"
        /\ StoppingWorker(w) =>
              /\ discSent'[w] = discSent[w]
              /\ proc'[w] = proc[w]
              /\ pc'[w] \in {"stopping", "idle"}
        /\ (invoked[w] # <<>> /\ pc[w] \in {"idle", "stopping", "stopped"}) =>
              /\ discSent'[w] = discSent[w]
              /\ invoked'[w] = invoked[w]
              /\ pc'[w] \in {"idle", "stopping", "stopped"}]_vars

\* One worker went through start_disconnection(FailedRx) and its peer through
\* start_disconnection(Remote), both to the end.
C30_Witness ==
    \E w \in TypeName :
      /\ pc[w] = "stopped" /\ pc[Peer(w)] = "stopped"
      /\ reason[w] = FailedRx /\ reason[Peer(w)] = Remote
      /\ discSent[w] = 1 /\ discSent[Peer(w)] = 0
      /\ proc[w] = "stopped" /\ proc[Peer(w)] = "stopped"

\* handle_message is invoked on worker w with the message m in this step, m
\* having reached the remote address, or the internal one.
ReceivesRemote(w, m) ==
    \/ remoteQ[w] # <<>> /\ Head(remoteQ[w]) = m /\ HandleRemote(w)
    \/ /\ strays' # strays
       /\ m \in StrayMessages
       /\ Handle(w, m, FALSE)
       /\ HandleStrayRemote(w)
ReceivesInternal(w, m) ==
    \/ internalQ[w] # <<>> /\ Head(internalQ[w]) = m /\ HandleInternal(w)
    \/ /\ strays' # strays
       /\ m = Msg(InternalDisconnect, Stray, FALSE)
       /\ HandleStrayInternal(w)

\* The messages a worker may be handed on its remote address: those of the
\* protocol, from the peer, and the stray ones.
RemoteMessages ==
    StrayMessages \cup {Msg(kind, v, FALSE) : kind \in PortalMessage, v \in TypeName}
                  \cup {Msg(Pong, PongRoute, FALSE)}

\* m is against the protocol for the state of w: a Ping or Pong to an
\* Initialized worker, or anything but a Pong to a worker in ReceivePong.
AgainstProtocol(w, m) ==
    \/ state[w] = Initialized /\ m.kind \in {Ping, Pong}
    \/ state[w] = ReceivePong /\ m.kind # Pong

\* handle_message returns the Protocol error and leaves state, remote_route,
\* rx and is_disconnecting as they were, sends nothing and starts no receiver.
RejectedAsProtocol(w) ==
    /\ result'[w] = Protocol
    /\ state'[w] = state[w]
    /\ remote_route'[w] = remote_route[w]
    /\ rx'[w] = rx[w]
    /\ is_disconnecting'[w] = is_disconnecting[w]
    /\ net' = net
    /\ pingSent' = pingSent
    /\ discSent' = discSent
    /\ recvStarted' = recvStarted
    /\ proc' = proc

\* C31 as stated: an Initialized worker that receives Ping or Pong on its
\* remote address, and a worker in ReceivePong that receives a portal
\* message other than Pong, returns the Protocol error and changes nothing.
C31_ProtocolErrorAlways ==
    [][\A w \in TypeName : \A m \in RemoteMessages :
         (~m.hop /\ AgainstProtocol(w, m) /\ ReceivesRemote(w, m))
           => RejectedAsProtocol(w)]_vars

\* C31, amended: a worker that is not disconnecting and receives, on its
\* remote address and with no hop left after it, a Ping or Pong when
\* Initialized or a portal message other than Pong when in ReceivePong,
\* returns the Protocol error; state, remote_route, rx and is_disconnecting
\* are unchanged, nothing is sent and no receiver is started.
C31_ProtocolError ==
    [][\A w \in TypeName : \A m \in RemoteMessages :
         (/\ ~is_disconnecting[w]
          /\ ~m.hop
          /\ AgainstProtocol(w, m)
          /\ ReceivesRemote(w, m))
           => RejectedAsProtocol(w)]_vars

\* An Initialized worker that is not disconnecting has returned the Protocol
\* error and still has its receiver and its remote_route.
C31_Witness ==
    \E w \in TypeName :
      /\ result[w] = Protocol
      /\ state[w] = Initialized
      /\ ~is_disconnecting[w]
      /\ recvStarted[w] = 1
      /\ remote_route[w] # None
      /\ pc[w] = "idle"

\* An Initialized worker that holds tx and is not disconnecting is handed the
\* Payload m in this step, and the write of it to tx fails.
WriteFails(w, m) ==
    /\ m.kind = Payload
    /\ ~m.hop
    /\ state[w] = Initialized
    /\ tx[w]
    /\ ~is_disconnecting[w]
    /\ written'[w] = written[w]
    /\ ReceivesRemote(w, m)

\* C32: when the node's calls do not fail, a failed write of a Payload to tx
\* in an Initialized worker is not returned as the handler's error: the
\* handler starts disconnection with reason FailedTx, that is, it sets
\* is_disconnecting, sends Disconnect along remote_route and returns Ok; and
\* the worker stops itself in the end, no handler of it returning an error.
C32_WriteErrorDisconnects ==
    /\ [][\A w \in TypeName : \A m \in RemoteMessages :
            WriteFails(w, m) =>
              /\ result'[w] = Ok
              /\ is_disconnecting'[w]
              /\ reason'[w] = FailedTx
              /\ net' = SendTo(remote_route[w], Msg(Disconnect, w, FALSE))
              /\ discSent'[w] = discSent[w] + 1
              /\ pc'[w] = "sleep_notify"]_vars
    /\ \A w \in TypeName : [](reason[w] = FailedTx => result[w] = Ok)
    /\ \A w \in TypeName : (reason[w] = FailedTx ~> pc[w] = "stopped")

\* A worker whose write failed has sent its Disconnect and stopped, its
\* handlers having returned Ok, and its peer has stopped on the Disconnect.
C32_Witness ==
    \E w \in TypeName :
      /\ reason[w] = FailedTx
      /\ written[w] = 0
      /\ pc[w] = "stopped"
      /\ discSent[w] = 1
      /\ result[w] = Ok
      /\ reason[Peer(w)] = Remote
      /\ pc[Peer(w)] = "stopped"

\* handle_message is invoked on worker w with the message m in this step,
\* before or after initialize.
Receives(w, m, internal) ==
    \/ ~internal /\ ReceivesRemote(w, m)
    \/ internal /\ ReceivesInternal(w, m)
    \/ /\ strays' # strays
       /\ pc[w] = "created"
       /\ m \in StrayMessages \cup {Msg(InternalDisconnect, Stray, FALSE)}
       /\ internal = (m.kind = InternalDisconnect)
       /\ HandleEarly(w, m, internal)

\* handle_message returns the error e and leaves the worker as it was:
\* nothing is sent, written or started.
Rejected(w, e) ==
    /\ result'[w] = e
    /\ state'[w] = state[w]
    /\ tx'[w] = tx[w]
    /\ rx'[w] = rx[w]
    /\ remote_route'[w] = remote_route[w]
    /\ is_disconnecting'[w] = is_disconnecting[w]
    /\ net' = net
    /\ pingSent' = pingSent
    /\ discSent' = discSent
    /\ written' = written
    /\ recvStarted' = recvStarted
    /\ proc' = proc

\* The messages a worker may be handed on its internal address.
InternalMessages == {Msg(InternalDisconnect, v, FALSE) : v \in {None, Stray}}

\* C33: a worker that is not disconnecting rejects, in any state, a message
\* with a hop left after the worker's own address with UnknownRoute and
\* changes no field; and, of the messages with no hop left, it rejects with
\* PortalInvalidState every message in SendPing or SendPong and every
\* message to the internal address in ReceivePong.
C33_RejectedEarly ==
    [][\A w \in TypeName : \A internal \in BOOLEAN :
         \A m \in (IF internal THEN InternalMessages ELSE RemoteMessages) :
           (~is_disconnecting[w] /\ Receives(w, m, internal)) =>
             /\ m.hop => Rejected(w, UnknownRoute)
             /\ (/\ ~m.hop
                 /\ \/ state[w] \in {SendPing, SendPong}
                    \/ state[w] = ReceivePong /\ internal)
                  => Rejected(w, PortalInvalidState)]_vars

\* The outlet was handed a message before its initialize and returned
\* PortalInvalidState, in SendPong still, the inlet waiting for its Pong.
C33_Witness ==
    /\ result[Outlet] = PortalInvalidState
    /\ state[Outlet] = SendPong
    /\ ~is_disconnecting[Outlet]
    /\ recvStarted[Outlet] = 0
    /\ state[Inlet] = ReceivePong
    /\ strays = 0

\* The worker has stopped itself through start_disconnection.
StoppedItself(w) == pc[w] = "stopped" /\ invoked[w] # <<>>

\* C34: whenever a worker has stopped itself through start_disconnection,
\* for whichever reason, its receive processor is not running any more.
C34_NoReceiverOutlives ==
    \A w \in TypeName : StoppedItself(w) => proc[w] # "running"

\* The outlet's dial to peer failed: its initialize returned the error of
\* TcpStream::connect and the outlet is gone.
DialFailed == pc[Outlet] = "failed" /\ result[Outlet] = ConnectError

\* Nothing is on its way to the inlet, which waits for its next message
\* with its stream open.
InletQuiet ==
    /\ pc[Inlet] = "idle"
    /\ net[Inlet] = <<>>
    /\ remoteQ[Inlet] = <<>>
    /\ internalQ[Inlet] = <<>>
    /\ stream[Inlet] = "open"

\* C35: after a failed dial of the outlet the inlet is not left Initialized
\* with no outlet: it has not completed its handshake, or a Disconnect is on
\* its way to it or has made it tear down.
C35_DialFailureReachesInlet ==
    (DialFailed /\ InletQuiet /\ state[Inlet] = Initialized)
      => is_disconnecting[Inlet]

\* C36: eval terminates for every expression and every environment, those
\* whose bindings refer back to themselves included: every call returns.
C36_EvalTerminates == <>Finished

RECURSIVE IsValue(_)

\* x is a value: a Str, Int, Float or Bool, unit, or a Seq of values. It
\* holds no Ident and no List but the empty one.
IsValue(x) ==
    CASE x.tag \in {"Str", "Int", "Float", "Bool"} -> TRUE
      [] x.tag = "Seq" -> \A k \in 1..Len(x.items) : IsValue(x.items[k])
      [] OTHER -> x = unit

\* C37 as stated: every successful result of eval is a value, and a value
\* evaluates, in any environment, to an expression equal to itself.
C37_ValuesEvaluateToEqual ==
    /\ out.kind = "Ok" => IsValue(out.val)
    /\ (Finished /\ IsValue(expr)) => (out.kind = "Ok" /\ ExprEq(out.val, expr))

\* C37, amended: every successful result of eval is a value, and a value
\* evaluates, in any environment, to itself: to the same expression, which
\* is equal to it unless a Float in it is NaN (a NaN is equal to nothing).
C37_ResultIsValue ==
    /\ out.kind = "Ok" => IsValue(out.val)
    /\ (Finished /\ IsValue(expr)) =>
          /\ out = Returned(expr)
          /\ ExprEq(out.val, expr) = NoNaN(expr)

\* A Seq of a Seq and a Float was evaluated and returned.
C37_Witness ==
    /\ expr.tag = "Seq"
    /\ Len(expr.items) = 2
    /\ expr.items[1].tag = "Seq"
    /\ bindings = SomeEnv
    /\ out = Returned(expr)

\* C38: a worker whose is_disconnecting is set is Initialized; no
\* disconnection is started from SendPing, SendPong or ReceivePong.
C38_DisconnectingIsInitialized ==
    /\ \A w \in TypeName : is_disconnecting[w] => state[w] = Initialized
    /\ [][\A w \in TypeName :
            state[w] # Initialized =>
              /\ ~is_disconnecting'[w]
              /\ invoked'[w] = invoked[w]
              /\ discSent'[w] = discSent[w]]_vars

\* The outlet is disconnecting after its receiver's Disconnect, and the
\* inlet, handed a message on its remote address while in ReceivePong,
\* returned an error and is not disconnecting.
C38_Witness ==
    /\ is_disconnecting[Outlet]
    /\ state[Outlet] = Initialized
    /\ state[Inlet] = ReceivePong
    /\ result[Inlet] = Protocol
    /\ ~is_disconnecting[Inlet]

\* C39: an Initialized worker holds its write half, inlet and outlet alike,
\* and handle_message of an Initialized worker never returns
\* PortalInvalidState, the error of a Payload arriving with tx absent.
C39_InitializedHasTx ==
    /\ \A w \in TypeName : state[w] = Initialized => tx[w]
    /\ [][\A w \in TypeName :
            (state[w] = Initialized /\ result'[w] = PortalInvalidState)
               => ~HandlesMessage(w)]_vars

\* Both workers are Initialized, and each has written a payload to its
\* stream.
C39_Witness ==
    \A w \in TypeName : state[w] = Initialized /\ tx[w] /\ written[w] > 0

\* C40: set_default on a name that exists succeeds, however many set_default
\* calls came before it, and default() then returns the state of that name;
\* a set_default that fails leaves the default link as it was.
C40_SetDefaultRepeatable ==
    /\ (call.op = "set_default" /\ <<call.category, call.name>> \in created)
          => /\ call.result # Fails
             /\ default(call.category) = get(call.category, call.name)
    /\ [][\A c \in Categories, name \in StoreNames :
            (SetDefault(c, name) /\ call'.result = Fails) => link' = link]_vars

====
